---- MODULE Spec2Model ----
(***************************************************************************)
(* A model of the perception-to-decision pipeline of the platformer agent: *)
(* the binary model codec shared by the trainer (SLTrainer) and the        *)
(* runtime (AIController), the controller's decide protocol, the feature   *)
(* extractor and the ray caster, and the player physics feeding them.      *)
(*                                                                         *)
(* Numbers are integers: positions in 1/600 pixel, velocities in tenths of  *)
(* a pixel per second, energy in thirds, time in frames of 1/60 second,    *)
(* raw network outputs in hundredths, features as fractions.               *)
(***************************************************************************)
EXTENDS Integers, Sequences, FiniteSets, TLC

VARIABLES
    aiEnabled,      \* AIController::aiEnabled
    modelLoaded,    \* AIController::modelLoaded
    modelWeights,   \* AIController::modelWeights, a sequence of tensors
    modelBias,      \* AIController::modelBias, a sequence of tensors
    histLen,        \* HistoryBuffer::stateHistory.size()
    network,        \* BehaviorCloningAgent::network, a sequence of tensors
    biases,         \* BehaviorCloningAgent::biases, a sequence of tensors
    version,        \* how many Adam updates produced the trainer's parameters
    file,           \* the model file on disk
    saved,          \* history: the parameters the file was last saved from
    ret,            \* what the last call returned, and in which state it ran
    levelData,      \* Map::levelData
    player,         \* the Player: position, velocity, energy, onGround
    safety,         \* SafetyChecker::entitySafetyMap["player"]
    features,       \* the vector extractFeatures builds for the current frame
    frames,         \* frames played
    keyFrames,      \* frames played with a key held
    probe,          \* the last call of a pure function: its input and result
    config,         \* SLTrainer::config
    dataset,        \* the samples handed to the trainer
    pc,             \* where SLTrainer::trainFromData stands
    epoch,          \* the epoch variable of its loop
    bestEpoch,      \* its local bestEpoch
    bestValLoss,    \* its local bestValLoss
    patienceCounter,\* its local patienceCounter
    result,         \* what the caller of the training was told
    log,            \* history: per epoch run, the loss and the parameters
    recordingEnabled,   \* DataCollector::recordingEnabled
    currentEpisode,     \* DataCollector::currentEpisode
    episodes,           \* DataCollector::episodes
    csv,                \* the file exportTrainingDataset writes
    totalGamesCount,    \* Game::totalGamesCount
    episodeFrameCount,  \* Game::episodeFrameCount
    recorded,           \* history: the frames recordCurrentFrame has taken
    running,            \* the game's window is open (Game::run has not returned)
    episodeLimit,       \* DataCollector::episodeLimit
    nextEpisodeId,      \* DataCollector::nextEpisodeId
    bin                 \* collected_data.bin: the episodes written to it

vars == <<aiEnabled, modelLoaded, modelWeights, modelBias, histLen,
          network, biases, version, file, saved, ret,
          levelData, player, safety, features, frames, keyFrames,
          probe, config, dataset, pc, epoch, bestEpoch, bestValLoss,
          patienceCounter, result, log,
          recordingEnabled, currentEpisode, episodes, csv, totalGamesCount,
          episodeFrameCount, recorded, running,
          episodeLimit, nextEpisodeId, bin>>

ctlVars == <<aiEnabled, modelLoaded, modelWeights, modelBias, histLen>>
trainerVars == <<network, biases, version>>
fileVars == <<file, saved>>
gameVars == <<levelData, player, safety, features, frames, keyFrames>>
probeVars == <<probe>>
runVars == <<config, dataset, pc, epoch, bestEpoch, bestValLoss,
             patienceCounter, result, log>>
dataVars == <<recordingEnabled, currentEpisode, episodes, csv, totalGamesCount,
              episodeFrameCount, recorded, running,
          episodeLimit, nextEpisodeId, bin>>
extVars == <<probeVars, runVars, dataVars>>

Min(a, b) == IF a < b THEN a ELSE b
Max(a, b) == IF a > b THEN a ELSE b

(***************************************************************************)
(* Bounds of the model.                                                    *)
(***************************************************************************)
\* parameter versions the trainer goes through (one per Adam update)
MaxVersion == 2
\* the size of the level, in tiles
GridCols == 7
GridRows == 11
\* frames of one run of the game, and how many of them have a key held
MaxFrames == 36
MaxKeyFrames == 1

(***************************************************************************)
(* The fixed topology 130 -> 256 -> 128 -> 64 -> 32 -> 16 -> 2.            *)
(***************************************************************************)
inputDim == 130
hiddenDim1 == 256
hiddenDim2 == 128
hiddenDim3 == 64
hiddenDim4 == 32
hiddenDim5 == 16
outputDim == 2
HISTORY_SIZE == 150

layerSizes == <<inputDim * hiddenDim1, hiddenDim1 * hiddenDim2,
                hiddenDim2 * hiddenDim3, hiddenDim3 * hiddenDim4,
                hiddenDim4 * hiddenDim5, hiddenDim5 * outputDim>>
biasSizes == <<hiddenDim1, hiddenDim2, hiddenDim3, hiddenDim4, hiddenDim5,
               outputDim>>

\* the length block k of a model file must have: 6 weight blocks, 6 bias blocks
ExpectedSizeBiasesFirst(k) == IF k <= 6 THEN biasSizes[k] ELSE layerSizes[k - 6]

\* the count loadModel expects in block k: six weight tensors, then six biases
ExpectedSize(k) == IF k <= 6 THEN layerSizes[k] ELSE biasSizes[k - 6]

(***************************************************************************)
(* Tensors.  A std::vector<float> of len elements is kept as its length    *)
(* and its content: the first `valid` elements are those of content `id`   *)
(* (element i of content id is the pair <<id, i>>), the others are filler  *)
(* (value-initialised zeros, or what an earlier call left there).          *)
(***************************************************************************)
Tensor(len, id, valid) == [len |-> len, id |-> id, valid |-> Min(valid, len)]
ZeroTensor(len) == Tensor(len, 0, 0)
EmptyTensor == ZeroTensor(0)

\* the content of tensor k (1..6 weights, 7..12 biases) of parameter version v
ContentId(v, k) == v * 100 + k


(***************************************************************************)
(* The model file: a run of blocks, each an 8-byte element count followed  *)
(* by that many floats.  Any byte string frames itself this way, so a file *)
(* is the sequence of its blocks; of a block cut short by the end of the   *)
(* file only `have` < len floats are there.  A file that ends inside a     *)
(* count ends, for a reader, before that block.                            *)
(***************************************************************************)
Block(t) == [len |-> t.len, have |-> t.len, id |-> t.id, valid |-> t.valid]

NoFile == [exists |-> FALSE, blocks |-> <<>>]

\* saved: nothing on disk is known to be what save wrote
NoSave == [valid |-> FALSE, net |-> <<>>, bia |-> <<>>]

\* BehaviorCloningAgent::initializeNetwork: six weight tensors and six bias
\* vectors of the fixed sizes, freshly drawn (parameter version v)
initializeNetwork(v) ==
    [net |-> [k \in 1..6 |-> Tensor(layerSizes[k], ContentId(v, k), layerSizes[k])],
     bia |-> [k \in 1..6 |-> Tensor(biasSizes[k], ContentId(v, k + 6), biasSizes[k])]]

\* the byte stream BehaviorCloningAgent::save writes: network, then biases
SaveBlocksSwapped(net, bia) ==
    [k \in 1..Len(bia) |-> Block(bia[k])] \o [k \in 1..Len(net) |-> Block(net[k])]

SaveBlocks(net, bia) ==
    [k \in 1..Len(net) |-> Block(net[k])] \o [k \in 1..Len(bia) |-> Block(bia[k])]

\* what `size_t size;` holds after a file.read that delivered nothing: the
\* variable is uninitialised, so a build may leave there 0, the value of the
\* previous iteration (same stack slot), or by chance the expected size
JunkKinds == {"zero", "prev", "expected"}
JunkSize(junk, prev, expected) ==
    CASE junk = "zero" -> 0
      [] junk = "prev" -> prev
      [] OTHER -> expected

\* file.read(&size, 8) on the stream st = [pos, good]
SizeReadOk(st, blocks) == st.good /\ st.pos <= Len(blocks)
ReadSize(st, blocks, junkSize) ==
    IF SizeReadOk(st, blocks) THEN blocks[st.pos].len ELSE junkSize

\* file.read(data, size * 4) into the tensor `old` already resized to size:
\* std::vector::resize keeps the prefix, a short read leaves the rest as it was
ReadTensor(old, size, st, blocks) ==
    LET resized == Tensor(size, old.id, Min(old.valid, size))
    IN  IF ~SizeReadOk(st, blocks) THEN resized
        ELSE LET blk == blocks[st.pos]
             IN  IF blk.have = 0 THEN resized
                 ELSE Tensor(size, blk.id, Min(blk.have, blk.valid))

\* the stream after the size and the data of one block were asked for
Advance(st, blocks) ==
    IF SizeReadOk(st, blocks)
    THEN [pos |-> st.pos + 1, good |-> blocks[st.pos].have = blocks[st.pos].len]
    ELSE [pos |-> st.pos, good |-> FALSE]

(***************************************************************************)
(* BehaviorCloningAgent::load: no length is checked; each tensor is        *)
(* resized to the count found (or left) in `size`.                         *)
(***************************************************************************)
RECURSIVE LoadLoop(_, _, _, _, _, _, _)
LoadLoop(k, st, blocks, net, bia, prev, junk) ==
    IF k > 12 THEN [net |-> net, bia |-> bia]
    ELSE LET old  == IF k <= 6 THEN net[k] ELSE bia[k - 6]
             size == ReadSize(st, blocks, JunkSize(junk, prev, ExpectedSize(k)))
             t    == ReadTensor(old, size, st, blocks)
             net2 == IF k <= 6 THEN [net EXCEPT ![k] = t] ELSE net
             bia2 == IF k <= 6 THEN bia ELSE [bia EXCEPT ![k - 6] = t]
         IN  LoadLoop(k + 1, Advance(st, blocks), blocks, net2, bia2, size, junk)

load(f, net, bia, junk) ==
    IF ~f.exists THEN [net |-> net, bia |-> bia]
    ELSE LoadLoop(1, [pos |-> 1, good |-> TRUE], f.blocks, net, bia, 0, junk)

(***************************************************************************)
(* AIController::loadModel: the tensors are cleared and resized to six     *)
(* empty ones, each count is compared with the fixed size, the load stops  *)
(* at the first mismatch; the stream's state is never looked at.           *)
(***************************************************************************)
RECURSIVE LoadModelLoop(_, _, _, _, _, _, _)
LoadModelLoop(k, st, blocks, W, B, prev, junk) ==
    IF k > 12 THEN [loaded |-> TRUE, W |-> W, B |-> B]
    ELSE LET size == ReadSize(st, blocks, JunkSize(junk, prev, ExpectedSize(k)))
         IN  IF size # ExpectedSize(k) THEN [loaded |-> FALSE, W |-> W, B |-> B]
             ELSE LET t  == ReadTensor(EmptyTensor, size, st, blocks)
                      W2 == IF k <= 6 THEN [W EXCEPT ![k] = t] ELSE W
                      B2 == IF k <= 6 THEN B ELSE [B EXCEPT ![k - 6] = t]
                  IN  LoadModelLoop(k + 1, Advance(st, blocks), blocks, W2, B2, size, junk)

loadModelResult(f, W, B, junk) ==
    IF ~f.exists THEN [loaded |-> FALSE, W |-> W, B |-> B]
    ELSE LoadModelLoop(1, [pos |-> 1, good |-> TRUE], f.blocks,
                       [k \in 1..6 |-> EmptyTensor], [k \in 1..6 |-> EmptyTensor],
                       0, junk)

(***************************************************************************)
(* The world: a tile grid and the player.  A frame lasts 1/FPS second (the *)
(* frame rate is limited to 60 and the time step clamped to 1/60); a       *)
(* position unit is 1/PXU pixel, so that a velocity of v tenths of a pixel *)
(* per second moves v units a frame; an energy unit is 1/ENU.              *)
(***************************************************************************)
TILE == 15
FPS == 60
PXU == 10 * FPS
ENU == FPS \div 20
\* Player::Player: the player's box is TILE * 0.8 wide and high
PlayerSize == (TILE * PXU * 8) \div 10

\* the level: border walls '1', open cells '0', the spawn 'P' in the top
\* row of the interior, the target 'T' in its bottom-left corner
SpawnCell == <<GridCols \div 2, 1>>
TargetCell == <<1, GridRows - 2>>
LevelCell(x, y) ==
    IF x = 0 \/ y = 0 \/ x = GridCols - 1 \/ y = GridRows - 1 THEN "1"
    ELSE IF <<x, y>> = SpawnCell THEN "P"
    ELSE IF <<x, y>> = TargetCell THEN "T"
    ELSE "0"
LevelGrid == [y \in 1..GridRows |-> [x \in 1..GridCols |-> LevelCell(x - 1, y - 1)]]
EmptyLevel == <<>>

\* Map::getPlayerPos and Map::getTargetPosition: the cell times TILE
CellPos(grid, ch) ==
    IF \E y \in 1..Len(grid) : \E x \in 1..Len(grid[y]) : grid[y][x] = ch
    THEN LET y == CHOOSE yy \in 1..Len(grid) : \E x \in 1..Len(grid[yy]) : grid[yy][x] = ch
             x == CHOOSE xx \in 1..Len(grid[y]) : grid[y][xx] = ch
         IN  <<(x - 1) * TILE * PXU, (y - 1) * TILE * PXU>>
    ELSE <<-1 * PXU, -1 * PXU>>
getPlayerPos(grid) == CellPos(grid, "P")
getTargetPosition(grid) == CellPos(grid, "T")

\* static_cast<int>(a / b) for b > 0: truncation toward zero
TruncDiv(a, b) == IF a >= 0 THEN a \div b ELSE -((-a) \div b)

Abs(a) == IF a < 0 THEN -a ELSE a

(***************************************************************************)
(* The player's physics, one frame at a time.                              *)
(***************************************************************************)
GRAVITY == 1350
JUMP_VELOCITY == 400
MOVE_SPEED == 160
maxFallSpeed == 500
maxEnergy == 150
energyConsumptionRate == 100
energyRegenRate == 500

\* Player::handleInput: dir is -1, 0 or 1 (A and D), w the fly key
PlayerHandleInput(p, dir, w) ==
    LET p1 == [p EXCEPT !.vx = dir * MOVE_SPEED * 10]
    IN  IF w /\ p1.energy > 0
        THEN [p1 EXCEPT !.vy = -((JUMP_VELOCITY * 10 * 45) \div 100)]
        ELSE p1

\* Player::update(dt)
PlayerUpdate(p) ==
    LET actuallyFlying == p.vy < 0 /\ ~p.onGround
        e == IF actuallyFlying /\ p.energy > 0
             THEN Max(0, p.energy - (energyConsumptionRate * ENU) \div FPS)
             ELSE IF p.onGround /\ p.energy < maxEnergy * ENU
             THEN Min(maxEnergy * ENU, p.energy + (energyRegenRate * ENU) \div FPS)
             ELSE p.energy
        vy == IF p.vy < maxFallSpeed * 10
              THEN p.vy + (GRAVITY * 10) \div FPS
              ELSE p.vy
    IN  [p EXCEPT !.energy = e, !.vy = vy,
                  !.x = p.x + TruncDiv(p.vx * PXU, 10 * FPS),
                  !.y = p.y + TruncDiv(vy * PXU, 10 * FPS)]

\* sf::FloatRect::intersects for boxes (left, top, width, height)
Intersects(ax, ay, aw, ah, bx, by, bw, bh) ==
    /\ Max(ax, bx) < Min(ax + aw, bx + bw)
    /\ Max(ay, by) < Min(ay + ah, by + bh)

\* handlePlayerPlatformCollision against the tile of cell (x, y)
CollideTile(p, grid, x, y) ==
    LET ts == TILE * PXU
        tl == x * ts
        tt == y * ts
        overlapX == Max(0, Min(p.x + PlayerSize, tl + ts) - Max(p.x, tl))
        overlapY == Max(0, Min(p.y + PlayerSize, tt + ts) - Max(p.y, tt))
        down == [p EXCEPT !.y = p.y + ((tt + ts) - p.y)]
        wallAt(cx, cy) == cx >= 0 /\ cx < Len(grid[1]) /\ grid[cy + 1][cx + 1] = "1"
        leftCorner == p.x >= tl /\ p.x <= tl + ts
        rightCorner == p.x + PlayerSize >= tl /\ p.x + PlayerSize <= tl + ts
        centred == /\ 16 * p.x + 8 * PlayerSize > 16 * tl + 3 * ts
                   /\ 16 * p.x + 8 * PlayerSize < 16 * tl + 13 * ts
    IN  IF grid[y + 1][x + 1] \notin {"1", "M"} THEN p
        ELSE IF ~Intersects(p.x, p.y, PlayerSize, PlayerSize, tl, tt, ts, ts) THEN p
        ELSE IF overlapX <= 0 \/ overlapY <= 0 THEN p
        ELSE IF overlapX < overlapY
             THEN [p EXCEPT !.vx = 0,
                            !.x = IF p.x < tl THEN p.x - overlapX ELSE p.x + overlapX]
        ELSE IF p.y < tt /\ p.vy > 0
             THEN [p EXCEPT !.y = p.y - ((p.y + PlayerSize) - tt), !.vy = 0,
                            !.onGround = TRUE]
        ELSE IF p.y < tt + ts
             THEN IF y # 0
                  THEN IF \/ (wallAt(x, y - 1) /\ wallAt(x - 1, y - 1) /\ wallAt(x + 1, y - 1))
                          \/ (leftCorner /\ rightCorner)
                       THEN down
                       ELSE IF centred THEN down ELSE p
                  ELSE down
        ELSE p

\* the loop over the tiles, row by row: the tiles of row y from column x on,
\* then the rows from y on; the player is worked out tile by tile (the
\* one-element sets bind each intermediate value)
RECURSIVE CollideRow(_, _, _, _)
CollideRow(p, grid, y, x) ==
    IF x >= Len(grid[1]) THEN p
    ELSE CHOOSE r \in {CollideRow(q, grid, y, x + 1) : q \in {CollideTile(p, grid, x, y)}} :
             TRUE

RECURSIVE CollideFrom(_, _, _)
CollideFrom(p, grid, y) ==
    IF y >= Len(grid) THEN p
    ELSE CHOOSE r \in {CollideFrom(q, grid, y + 1) : q \in {CollideRow(p, grid, y, 0)}} :
             TRUE

handlePlayerPlatformCollision(p, grid) ==
    CollideFrom([p EXCEPT !.onGround = FALSE], grid, 0)

(***************************************************************************)
(* SafetyChecker, for the one registered entity "player".                  *)
(***************************************************************************)
EDGE_THRESHOLD == 2
DANGER_RESET_TIME == 2

isWithinMapBounds(p, grid) ==
    /\ p.x >= 0
    /\ p.y >= 0
    /\ p.x + PlayerSize <= Len(grid[1]) * TILE * PXU
    /\ p.y + PlayerSize <= Len(grid) * TILE * PXU

isNearMapEdge(p, grid) ==
    LET edge == TILE * EDGE_THRESHOLD * PXU
    IN  \/ p.x < edge
        \/ p.x + PlayerSize > Len(grid[1]) * TILE * PXU - edge
        \/ p.y < edge
        \/ p.y + PlayerSize > Len(grid) * TILE * PXU - edge

isCollidingWithWall(p, grid) ==
    \E y \in 1..Len(grid) : \E x \in 1..Len(grid[y]) :
        /\ grid[y][x] = "1"
        /\ Intersects(p.x, p.y, PlayerSize, PlayerSize,
                      (x - 1) * TILE * PXU, (y - 1) * TILE * PXU, TILE * PXU, TILE * PXU)

\* the checks with the wall test before the edge test
checkPositionSafetyWallFirst(p, grid) ==
    IF ~isWithinMapBounds(p, grid) THEN "Out of map bounds"
    ELSE IF isCollidingWithWall(p, grid) THEN "Entity stuck in wall"
    ELSE IF isNearMapEdge(p, grid) THEN "Near map edge"
    ELSE "safe"

checkPositionSafety(p, grid) ==
    IF ~isWithinMapBounds(p, grid) THEN "Out of map bounds"
    ELSE IF isNearMapEdge(p, grid) THEN "Near map edge"
    ELSE IF isCollidingWithWall(p, grid) THEN "Entity stuck in wall"
    ELSE "safe"

NoSafety == [isInDanger |-> FALSE, dangerTimer |-> 0, lastSafePosition |-> <<0, 0>>]

\* updateEntitySafety with a safe call that leaves the danger timer
updateEntitySafetyKeepsTimer(sf, p, grid, dt) ==
    IF checkPositionSafety(p, grid) # "safe"
    THEN IF ~sf.isInDanger
         THEN [safety |-> [sf EXCEPT !.isInDanger = TRUE],
               reset |-> FALSE]
         ELSE [safety |-> [sf EXCEPT !.dangerTimer = sf.dangerTimer + dt],
               reset |-> sf.dangerTimer + dt >= DANGER_RESET_TIME * FPS]
    ELSE [safety |-> [isInDanger |-> FALSE, dangerTimer |-> sf.dangerTimer,
                      lastSafePosition |-> <<p.x, p.y>>],
          reset |-> FALSE]

\* updateEntitySafety: the new safety record, and whether a reset is asked
\* for; dt and the danger timer in frames (1/FPS s)
updateEntitySafety(sf, p, grid, dt) ==
    IF checkPositionSafety(p, grid) # "safe"
    THEN IF ~sf.isInDanger
         THEN [safety |-> [sf EXCEPT !.isInDanger = TRUE, !.dangerTimer = 0],
               reset |-> FALSE]
         ELSE [safety |-> [sf EXCEPT !.dangerTimer = sf.dangerTimer + dt],
               reset |-> sf.dangerTimer + dt >= DANGER_RESET_TIME * FPS]
    ELSE [safety |-> [isInDanger |-> FALSE, dangerTimer |-> 0,
                      lastSafePosition |-> <<p.x, p.y>>],
          reset |-> FALSE]

\* the player as Game's constructor and initResources leave it
SpawnPlayer(grid) ==
    [x |-> getPlayerPos(grid)[1], y |-> getPlayerPos(grid)[2], vx |-> 0, vy |-> 0,
     energy |-> maxEnergy * ENU, onGround |-> FALSE]

\* Game::resetLevel: the player goes back to the spawn cell (its velocity
\* and energy stay), the safety record is erased
ResetPlayer(p, grid) == [p EXCEPT !.x = getPlayerPos(grid)[1], !.y = getPlayerPos(grid)[2]]

\* Game::update once the player has moved and collided: the target test,
\* then the safety check; the new player and safety record
AfterCollision(moved, sf, grid) ==
    LET target == getTargetPosition(grid)
        reached == Intersects(moved.x, moved.y, PlayerSize, PlayerSize,
                              target[1], target[2], TILE * PXU, TILE * PXU)
    IN  IF reached THEN [player |-> ResetPlayer(moved, grid), safety |-> NoSafety]
        ELSE IF updateEntitySafety(sf, moved, grid, 1).reset
             THEN [player |-> ResetPlayer(moved, grid), safety |-> NoSafety]
        ELSE [player |-> moved, safety |-> updateEntitySafety(sf, moved, grid, 1).safety]

\* Game::handleInput and Game::update for one frame
GameFrameResult(p, sf, grid, dir, w) ==
    CHOOSE r \in {AfterCollision(moved, sf, grid) :
                     moved \in {handlePlayerPlatformCollision(
                                   PlayerUpdate(PlayerHandleInput(p, dir, w)), grid)}} :
        TRUE

(***************************************************************************)
(* RayCasting.  A direction is (cos, sin) in ten-thousandths, a point of a *)
(* ray is in 1/RAYU pixel; the angles                                      *)
(* of castRays are start + (end - start) * i / raysPerQuadrant, here the   *)
(* multiples of 22.5 degrees, which serve raysPerQuadrant 1, 2 and 4.      *)
(***************************************************************************)
MAX_DISTANCE == 150
DefaultRaysPerQuadrant == 4
RAYU == PXU * 50

CosTab == <<10000, 9239, 7071, 3827, 0, -3827, -7071, -9239,
            -10000, -9239, -7071, -3827, 0, 3827, 7071, 9239>>
SinTab == <<0, 3827, 7071, 9239, 10000, 9239, 7071, 3827,
            0, -3827, -7071, -9239, -10000, -9239, -7071, -3827>>
\* the direction of ray i of quadrant q (both from 0) with n rays per quadrant
Direction(q, i, n) ==
    LET a == q * 4 + (4 * i) \div n
    IN  <<CosTab[a + 1], SinTab[a + 1]>>

\* RayCasting::isObstacle
isObstacle(grid, x, y) ==
    IF y < 0 \/ y >= Len(grid) THEN TRUE
    ELSE IF x < 0 \/ x >= Len(grid[y + 1]) THEN TRUE
    ELSE grid[y + 1][x + 1] \in {"1", "M", "W", "3", "4"}

RayMiss(origin, dir) ==
    [hit |-> FALSE, distance |-> MAX_DISTANCE,
     hitPoint |-> <<origin[1] + (RAYU \div 10000) * dir[1] * MAX_DISTANCE,
                    origin[2] + (RAYU \div 10000) * dir[2] * MAX_DISTANCE>>]

\* the cell under the point d pixels along the ray (STEP_SIZE = 1 pixel);
\* static_cast<int>(currentPos / TILE)
RayCell(origin, dir, d) ==
    <<TruncDiv(origin[1] + (RAYU \div 10000) * dir[1] * d, TILE * RAYU),
      TruncDiv(origin[2] + (RAYU \div 10000) * dir[2] * d, TILE * RAYU)>>

\* the bounds test of the stepping loop
RayOutside(grid, c) ==
    \/ c[1] < 0
    \/ c[2] < 0
    \/ c[2] >= Len(grid)
    \/ c[1] >= Len(grid[c[2] + 1])

\* the loop of castSingleRay ends at step d: the point is outside the grid
\* or on an obstacle
RayStops(origin, dir, grid, d) ==
    \E c \in {RayCell(origin, dir, d)} :
        RayOutside(grid, c) \/ isObstacle(grid, c[1], c[2])

\* what castSingleRay returns when its loop ends at step d
RayResult(origin, dir, grid, d) ==
    IF d = MAX_DISTANCE THEN RayMiss(origin, dir)
    ELSE IF RayOutside(grid, RayCell(origin, dir, d)) THEN RayMiss(origin, dir)
    ELSE [hit |-> TRUE, distance |-> d,
          hitPoint |-> <<origin[1] + (RAYU \div 10000) * dir[1] * d,
                         origin[2] + (RAYU \div 10000) * dir[2] * d>>]

\* castSingleRay without its bounds test: isObstacle takes a cell outside
\* the level for an obstacle, and the ray reports a hit there
castSingleRayBoundsAsHit(origin, dir, grid) ==
    CHOOSE r \in {IF d = MAX_DISTANCE THEN RayMiss(origin, dir)
                  ELSE [hit |-> TRUE, distance |-> d,
                        hitPoint |-> <<origin[1] + (RAYU \div 10000) * dir[1] * d,
                                       origin[2] + (RAYU \div 10000) * dir[2] * d>>] :
                     d \in {CHOOSE e \in 0..MAX_DISTANCE :
                               /\ e = MAX_DISTANCE \/ RayStops(origin, dir, grid, e)
                               /\ \A f \in 0..(e - 1) : ~RayStops(origin, dir, grid, f)}} :
        TRUE

\* RayCasting::castSingleRay: the loop runs d = 0, 1, ... and ends at the
\* first step whose point is outside the grid (a miss) or on an obstacle (a
\* hit), or at MAX_DISTANCE (a miss)
castSingleRay(origin, dir, grid) ==
    CHOOSE r \in {RayResult(origin, dir, grid, d) :
                     d \in {CHOOSE e \in 0..MAX_DISTANCE :
                               /\ e = MAX_DISTANCE \/ RayStops(origin, dir, grid, e)
                               /\ \A f \in 0..(e - 1) : ~RayStops(origin, dir, grid, f)}} :
        TRUE

\* castRays with its quadrant loop ending one quadrant early
castRaysThreeQuadrants(origin, grid, raysPerQuadrant) ==
    IF Len(grid) = 0 THEN <<>>
    ELSE [r \in 1..(3 * raysPerQuadrant) |->
            castSingleRay(origin,
                          Direction((r - 1) \div raysPerQuadrant,
                                    (r - 1) % raysPerQuadrant, raysPerQuadrant),
                          grid)]

\* RayCasting::castRays: nothing for an empty level, else raysPerQuadrant
\* rays in each of the four quadrants
castRays(origin, grid, raysPerQuadrant) ==
    IF Len(grid) = 0 THEN <<>>
    ELSE [r \in 1..(4 * raysPerQuadrant) |->
            castSingleRay(origin,
                          Direction((r - 1) \div raysPerQuadrant,
                                    (r - 1) % raysPerQuadrant, raysPerQuadrant),
                          grid)]

(***************************************************************************)
(* AIController::extractFeatures.  A feature is an exact fraction          *)
(* <<numerator, denominator>>.                                             *)
(***************************************************************************)
\* floor of the square root, by bisection
RECURSIVE SqrtBetween(_, _, _)
SqrtBetween(n, lo, hi) ==
    IF lo >= hi THEN lo
    ELSE LET mid == (lo + hi + 1) \div 2
         IN  IF mid * mid <= n THEN SqrtBetween(n, mid, hi)
             ELSE SqrtBetween(n, lo, mid - 1)
ISqrt(n) == SqrtBetween(n, 0, 40000)

\* atan of z / 1000 for 0 <= z <= 1000, in milliradians:
\* z * (pi/4 + 0.273 * (1 - z)), within 4 milliradians of atan
AtanUnit(z) == (z * (785 + (273 * (1000 - z)) \div 1000)) \div 1000
\* std::atan2(y, x) in milliradians
Atan2Milli(y, x) ==
    IF x = 0 /\ y = 0 THEN 0
    ELSE LET ax == Abs(x)
             ay == Abs(y)
             a  == IF ay <= ax THEN AtanUnit((ay * 1000) \div ax)
                   ELSE 1571 - AtanUnit((ax * 1000) \div ay)
             b  == IF x >= 0 THEN a ELSE 3142 - a
         IN  IF y >= 0 THEN b ELSE -b

\* min(a / b, 1.0f)
MinOne(num, den) == IF num > den THEN <<1, 1>> ELSE <<num, den>>

\* the normalisation loop: what feature i (from 0) becomes
NormalizeFeature(i, raw) ==
    IF i < 2 THEN <<raw, 1350 * PXU>>
    ELSE IF i >= 2 /\ i < 4 THEN <<raw * 100, 240832>>
    ELSE IF i = 4 THEN <<raw, 150 * ENU>>
    ELSE IF i = 5 THEN <<raw, 1>>
    ELSE IF i = 6 THEN MinOne(raw * 14143, 13500 * 10000)
    ELSE IF i = 7 THEN <<raw, 3142>>
    ELSE IF i >= 8 /\ i < 10 THEN <<raw, 1350 * PXU>>
    ELSE IF i >= 10 /\ i < 70 THEN MinOne(raw, 150)
    ELSE <<raw, 1>>

\* the raw vector: position, velocity (tenths of px/s), energy, grounded,
\* distance to the target (tenths of px), its angle (mrad), the target, then
\* one distance (px) and one hit flag per ray
RawFeaturesWith(p, grid, rays) ==
    LET target == getTargetPosition(grid)
        dx == TruncDiv((target[1] - p.x) * 10, PXU)
        dy == TruncDiv((target[2] - p.y) * 10, PXU)
    IN  <<p.x, p.y, p.vx, p.vy, p.energy, IF p.onGround THEN 1 ELSE 0,
          ISqrt(dx * dx + dy * dy), Atan2Milli(dy, dx), target[1], target[2]>>
        \o [r \in 1..Len(rays) |-> rays[r].distance]
        \o [r \in 1..Len(rays) |-> IF rays[r].hit THEN 1 ELSE 0]

\* the rays leave the player's centre, position + (7.5, 7.5), and castRays
\* is called with its default number of rays per quadrant
RawFeatures(p, grid) ==
    LET center == <<(p.x + (15 * PXU) \div 2) * (RAYU \div PXU),
                    (p.y + (15 * PXU) \div 2) * (RAYU \div PXU)>>
    IN  CHOOSE raw \in {RawFeaturesWith(p, grid, rays) :
                           rays \in {castRays(center, grid, DefaultRaysPerQuadrant)}} :
            TRUE

extractFeatures(p, grid) ==
    CHOOSE f \in {[i \in 1..Len(raw) |-> NormalizeFeature(i - 1, raw[i])] :
                     raw \in {RawFeatures(p, grid)}} :
        TRUE


(***************************************************************************)
(* The controller's decision paths.  An outcome is the action returned and *)
(* how it came about: path, whether the forward pass ran on the stored     *)
(* tensors (evaluated), whether an element past a tensor's end was read    *)
(* (oob), whether the call ended the process (crashed).                    *)
(***************************************************************************)
Outcome(moveX, useEnergy, path, evaluated, oob, crashed) ==
    [moveX |-> moveX, useEnergy |-> useEnergy, path |-> path,
     evaluated |-> evaluated, oob |-> oob, crashed |-> crashed]

\* Action{0, 0}
NullOutcome == Outcome(0, 0, "null", FALSE, FALSE, FALSE)

getRandomActionWide == {<<m, e>> : m \in -2..2, e \in 0..2}

\* getRandomAction: uniform_int_distribution(-1, 1) and (0, 1)
getRandomAction == {<<m, e>> : m \in -1..1, e \in 0..1}

RandomOutcome(rnd, why) == Outcome(rnd[1], rnd[2], why, FALSE, FALSE, FALSE)

\* the raw output pair of the forward pass, in hundredths; which pair comes out
\* depends on the weights and the features and is left open
RawOutputs == {<<a, b>> : a \in {-34, -33, 33, 34}, b \in {50, 51}}

\* the thresholds of the trainer's own predict: 0.5 on both outputs
DiscretizeHalf(raw) ==
    <<IF raw[1] > 50 THEN 1 ELSE IF raw[1] < -50 THEN -1 ELSE 0,
      IF raw[2] >= 50 THEN 1 ELSE 0>>

\* the discretisation at the end of predictActionWithDetails
Discretize(raw) ==
    <<IF raw[1] > 33 THEN 1 ELSE IF raw[1] < -33 THEN -1 ELSE 0,
      IF raw[2] > 50 THEN 1 ELSE 0>>

\* the forward pass indexes every tensor up to its fixed size, unchecked
ForwardInBounds(W, B) ==
    /\ \A k \in 1..6 : W[k].len >= layerSizes[k]
    /\ \A k \in 1..6 : B[k].len >= biasSizes[k]

predictActionWithDetailsAnyWidth(n, W, B, rnd, raw, segv) ==
    IF Len(W) = 0 \/ Len(B) = 0 THEN RandomOutcome(rnd, "random_empty")
    ELSE IF Len(W) < 6 \/ Len(B) < 6 THEN RandomOutcome(rnd, "random_incomplete")
    ELSE IF ~ForwardInBounds(W, B) \/ n < inputDim
         THEN IF segv THEN Outcome(0, 0, "crash", TRUE, TRUE, TRUE)
              ELSE Outcome(Discretize(raw)[1], Discretize(raw)[2], "model", TRUE, TRUE, FALSE)
    ELSE Outcome(Discretize(raw)[1], Discretize(raw)[2], "model", TRUE, FALSE, FALSE)

\* predictActionWithDetails on a feature vector of n elements
predictActionWithDetails(n, W, B, rnd, raw, segv) ==
    IF Len(W) = 0 \/ Len(B) = 0 THEN RandomOutcome(rnd, "random_empty")
    ELSE IF n # inputDim THEN RandomOutcome(rnd, "random_dimension")
    ELSE IF Len(W) < 6 \/ Len(B) < 6 THEN RandomOutcome(rnd, "random_incomplete")
    ELSE IF ~ForwardInBounds(W, B)
         THEN IF segv THEN Outcome(0, 0, "crash", TRUE, TRUE, TRUE)
              ELSE Outcome(Discretize(raw)[1], Discretize(raw)[2], "model", TRUE, TRUE, FALSE)
    ELSE Outcome(Discretize(raw)[1], Discretize(raw)[2], "model", TRUE, FALSE, FALSE)

\* predictAction
predictAction(n, W, B, rnd, raw, segv) ==
    IF Len(W) = 0 \/ Len(B) = 0 THEN RandomOutcome(rnd, "random_empty")
    ELSE predictActionWithDetails(n, W, B, rnd, raw, segv)

\* predictSequenceAction, called with a full history whose last frame has n
\* elements: every branch past the emptiness test ends in the single-frame
\* prediction on the last frame
predictSequenceAction(n, full, W, B, rnd, raw, segv) ==
    IF Len(W) = 0 \/ Len(B) = 0 THEN RandomOutcome(rnd, "random_empty")
    ELSE IF ~full THEN predictActionWithDetails(n, W, B, rnd, raw, segv)
    ELSE IF Len(W) < 12 THEN predictActionWithDetails(n, W, B, rnd, raw, segv)
    ELSE predictActionWithDetails(n, W, B, rnd, raw, segv)

\* HistoryBuffer::addState and isFull
addState(h) == IF h + 1 > HISTORY_SIZE THEN HISTORY_SIZE ELSE h + 1
isFull(h) == h >= HISTORY_SIZE

\* what a call leaves in ret: the operation, and for a decide call the
\* length of the feature vector it built, whether extractFeatures threw, and
\* the outcome
Ret(op, out, n, threw) == [op |-> op, featLen |-> n, threw |-> threw, out |-> out]

NoRet == Ret("none", NullOutcome, 0, FALSE)

DecideOps == {"decideAction", "decideActionWithDetails"}

decideActionOutcomeUncaught(n, oom, rnd, raw, segv) ==
    IF ~aiEnabled THEN NullOutcome
    ELSE IF oom THEN Outcome(0, 0, "propagated", FALSE, FALSE, TRUE)
    ELSE IF modelLoaded THEN predictAction(n, modelWeights, modelBias, rnd, raw, segv)
    ELSE RandomOutcome(rnd, "random_nomodel")

\* AIController::decideAction; oom: extractFeatures throws std::bad_alloc
decideActionOutcome(n, oom, rnd, raw, segv) ==
    IF ~aiEnabled THEN NullOutcome
    ELSE IF oom THEN RandomOutcome(rnd, "random_exception")
    ELSE IF modelLoaded THEN predictAction(n, modelWeights, modelBias, rnd, raw, segv)
    ELSE RandomOutcome(rnd, "random_nomodel")

decideActionWithDetailsUnguarded(n, oom, rnd, raw, segv) ==
    IF oom THEN RandomOutcome(rnd, "random_exception")
    ELSE predictActionWithDetails(n, modelWeights, modelBias, rnd, raw, segv)

\* AIController::decideActionWithDetails
decideActionWithDetailsOutcome(n, oom, rnd, raw, segv) ==
    IF ~aiEnabled THEN NullOutcome
    ELSE IF oom THEN RandomOutcome(rnd, "random_exception")
    ELSE IF isFull(addState(histLen)) /\ modelLoaded
         THEN predictSequenceAction(n, isFull(addState(histLen)), modelWeights,
                                    modelBias, rnd, raw, segv)
    ELSE predictActionWithDetails(n, modelWeights, modelBias, rnd, raw, segv)

(***************************************************************************)
(* The controller, driven by its caller; the model file comes from outside.*)
(***************************************************************************)
ValidFile(v) ==
    [exists |-> TRUE,
     blocks |-> SaveBlocks(initializeNetwork(v).net, initializeNetwork(v).bia)]

\* f ending inside block k, `have` floats into its data
CutInside(f, k, have) ==
    [exists |-> TRUE,
     blocks |-> SubSeq(f.blocks, 1, k - 1)
                \o <<[f.blocks[k] EXCEPT !.have = have,
                                         !.valid = Min(have, f.blocks[k].valid)]>>]

\* f ending just before the count of block k
CutBefore(f, k) == [exists |-> TRUE, blocks |-> SubSeq(f.blocks, 1, k - 1)]

\* a file saved for a network reading `width` inputs
ForeignFile(v, width) ==
    [exists |-> TRUE,
     blocks |-> <<Block(Tensor(width * hiddenDim1, ContentId(v, 1), width * hiddenDim1))>>
                \o Tail(ValidFile(v).blocks)]

\* the files the controller may find: none, one saved by the trainer, and
\* one ending inside the data of the first bias vector
ModelFiles == {NoFile, ValidFile(1), CutInside(ValidFile(1), 7, 100)}

\* the file is replaced (or removed) between two calls
InstallFile ==
    /\ \E f \in ModelFiles : file' = f
    /\ saved' = NoSave
    /\ ret' = Ret("install", NullOutcome, 0, FALSE)
    /\ UNCHANGED <<extVars, ctlVars, trainerVars, gameVars>>

\* AIController::loadModel
loadModel ==
    /\ \E junk \in JunkKinds :
          LET r == loadModelResult(file, modelWeights, modelBias, junk)
          IN  /\ modelLoaded' = r.loaded
              /\ modelWeights' = r.W
              /\ modelBias' = r.B
    /\ ret' = Ret("loadModel", NullOutcome, 0, FALSE)
    /\ UNCHANGED <<extVars, aiEnabled, histLen, trainerVars, fileVars, gameVars>>

\* AIController::setAIEnabled
setAIEnabled ==
    /\ \E enabled \in BOOLEAN : aiEnabled' = enabled
    /\ ret' = Ret("setAIEnabled", NullOutcome, 0, FALSE)
    /\ UNCHANGED <<extVars, modelLoaded, modelWeights, modelBias, histLen, trainerVars,
                   fileVars, gameVars>>

\* the ways a decide call on a vector of n features can go: whether
\* extractFeatures threw, and the outcome
decideActionResults(n) ==
    {<<oom, decideActionOutcome(n, oom, rnd, raw, segv)>> :
        oom \in BOOLEAN, rnd \in getRandomAction, raw \in RawOutputs, segv \in BOOLEAN}

decideActionWithDetailsResults(n) ==
    {<<oom, decideActionWithDetailsOutcome(n, oom, rnd, raw, segv)>> :
        oom \in BOOLEAN, rnd \in getRandomAction, raw \in RawOutputs, segv \in BOOLEAN}

\* AIController::decideAction.  extractFeatures is a function of the player
\* and the level: its value for the current frame is in `features`
decideAction ==
    /\ \E r \in decideActionResults(Len(features)) :
          ret' = Ret("decideAction", r[2],
                     IF aiEnabled /\ ~r[1] THEN Len(features) ELSE 0, aiEnabled /\ r[1])
    /\ UNCHANGED <<extVars, ctlVars, trainerVars, fileVars, gameVars>>

\* AIController::decideActionWithDetails
decideActionWithDetails ==
    /\ \E r \in decideActionWithDetailsResults(Len(features)) :
          /\ ret' = Ret("decideActionWithDetails", r[2],
                        IF aiEnabled /\ ~r[1] THEN Len(features) ELSE 0,
                        aiEnabled /\ r[1])
          /\ histLen' = IF aiEnabled /\ ~r[1] THEN addState(histLen) ELSE histLen
    /\ UNCHANGED <<extVars, aiEnabled, modelLoaded, modelWeights, modelBias, trainerVars,
                   fileVars, gameVars>>

\* no pure function has been called yet
NoProbe == [fn |-> "none", in |-> <<>>, out |-> <<>>]

\* SLTrainer::TrainingConfig(): the defaults; validationSplit in percent
DefaultConfig ==
    [batchSize |-> 64, epochs |-> 1000, validationSplit |-> 20,
     earlyStoppingPatience |-> 10]

\* a loss: a float that may be NaN; a finite one in units of its own
Loss(v) == [nan |-> FALSE, v |-> v]
NaN == [nan |-> TRUE, v |-> 0]
\* a < b on floats: false as soon as one side is NaN
Less(a, b) == ~a.nan /\ ~b.nan /\ a.v < b.v

\* n samples whose state vectors have stateLen elements and whose action
\* vectors have actionLen
Dataset(n, stateLen, actionLen) ==
    [n |-> n, stateLen |-> stateLen, actionLen |-> actionLen]
NoDataset == Dataset(0, 0, 0)

\* TrainingManager::TrainingResult(), and what else a caller can see of a
\* run: op names the call that ended, signal what it told its caller
NoResult ==
    [caller |-> "none", op |-> "none", success |-> FALSE, errorMessage |-> "",
     signal |-> "none", trainSize |-> 0, stoppedEarly |-> FALSE,
     crashed |-> FALSE, checkpoints |-> 0, saveFailed |-> FALSE]

\* history of a run: epochs run, Adam updates made, the parameter version
\* of the epoch with the lowest validation loss, the lowest loss so far and
\* for how many epochs in a row the loss has not gone below it (flat); the
\* same count when only a fall of more than one unit counts (marginBest,
\* stall); the step values the batches of the latest epoch gave to the Adam
\* update (steps)
NoLog ==
    [epochsRun |-> 0, updates |-> 0, bestVersion |-> 0,
     minLoss |-> NaN, flat |-> 0, marginBest |-> NaN, stall |-> 0,
     steps |-> <<>>]

\* DataCollector::currentEpisode: nullptr, or the episode being recorded
\* with the frames it has so far (a frame is its number, its terminal flag
\* and, as history, the id of the episode that was active when it was taken)
NoEpisode == [active |-> FALSE, episodeId |-> 0, steps |-> 0, frames |-> <<>>]

\* no CSV file yet
NoCsv == [exists |-> FALSE, headers |-> 0, rows |-> <<>>]

\* AIController::AIController, before any loadModel; the level is drawn
Init ==
    /\ aiEnabled = FALSE
    /\ modelLoaded = FALSE
    /\ modelWeights = <<>>
    /\ modelBias = <<>>
    /\ histLen = 0
    /\ network = initializeNetwork(0).net
    /\ biases = initializeNetwork(0).bia
    /\ version = 0
    /\ file \in ModelFiles
    /\ saved = NoSave
    /\ ret = NoRet
    /\ levelData = LevelGrid
    /\ player = SpawnPlayer(levelData)
    /\ safety = NoSafety
    /\ features = extractFeatures(player, levelData)
    /\ frames = 0
    /\ keyFrames = 0
    /\ probe = NoProbe
    /\ config = DefaultConfig
    /\ dataset = NoDataset
    /\ pc = "idle"
    /\ epoch = 0
    /\ bestEpoch = 0
    /\ bestValLoss = NaN
    /\ patienceCounter = 0
    /\ result = NoResult
    /\ log = NoLog
    /\ recordingEnabled = FALSE
    /\ currentEpisode = NoEpisode
    /\ episodes = <<>>
    /\ csv = NoCsv
    /\ totalGamesCount = 0
    /\ episodeFrameCount = 0
    /\ recorded = 0
    /\ running = TRUE
    /\ episodeLimit = 10000
    /\ nextEpisodeId = 1
    /\ bin = <<>>

Next ==
    \/ InstallFile
    \/ loadModel
    \/ setAIEnabled
    \/ decideAction
    \/ decideActionWithDetails

Spec == Init /\ [][Next]_vars

(***************************************************************************)
(* The trainer and the controller sharing the model file.                  *)
(***************************************************************************)
\* parameters of the fixed topology, every element set
ValidParams(net, bia) ==
    /\ Len(net) = 6
    /\ Len(bia) = 6
    /\ \A k \in 1..6 : net[k].len = layerSizes[k] /\ net[k].valid = net[k].len
    /\ \A k \in 1..6 : bia[k].len = biasSizes[k] /\ bia[k].valid = bia[k].len

\* BehaviorCloningAgent::save; the open fails when the path is not writable
save ==
    /\ \E writable \in BOOLEAN :
          IF writable
          THEN /\ file' = [exists |-> TRUE, blocks |-> SaveBlocks(network, biases)]
               /\ saved' = [valid |-> TRUE, net |-> network, bia |-> biases]
          ELSE UNCHANGED fileVars
    /\ ret' = Ret("save", NullOutcome, 0, FALSE)
    /\ UNCHANGED <<extVars, ctlVars, trainerVars, gameVars>>

\* BehaviorCloningAgent::load
agentLoad ==
    /\ \E junk \in JunkKinds :
          LET r == load(file, network, biases, junk)
          IN  /\ network' = r.net
              /\ biases' = r.bia
    /\ ret' = Ret("load", NullOutcome, 0, FALSE)
    /\ UNCHANGED <<extVars, version, ctlVars, fileVars, gameVars>>

\* BehaviorCloningAgent::train: adamUpdate writes every element of every
\* tensor; the lengths stay.  Followed for parameters of the fixed topology
\* only: on tensors a load has resized the forward pass is undefined.
train ==
    /\ version < MaxVersion
    /\ ValidParams(network, biases)
    /\ version' = version + 1
    /\ network' = [k \in 1..6 |->
                     Tensor(network[k].len, ContentId(version + 1, k), network[k].len)]
    /\ biases' = [k \in 1..6 |->
                    Tensor(biases[k].len, ContentId(version + 1, k + 6), biases[k].len)]
    /\ ret' = Ret("train", NullOutcome, 0, FALSE)
    /\ UNCHANGED <<extVars, ctlVars, fileVars, gameVars>>

\* what can happen to the file outside the program: it is removed, it is
\* replaced by the file of a network reading 42 inputs, or, a file saved
\* from parameters of the fixed topology, it loses its end (before a count,
\* or inside a block's data)
DamagedFiles(f) ==
    {NoFile, ForeignFile(1, 42)}
    \cup (IF saved.valid /\ ValidParams(saved.net, saved.bia)
          THEN {CutBefore(f, k) : k \in {1, 12}}
               \cup {CutInside(f, k, 1) : k \in {7, 12}}
          ELSE {})

DamageFile ==
    /\ \E f \in DamagedFiles(file) : file' = f
    /\ saved' = NoSave
    /\ ret' = Ret("damage", NullOutcome, 0, FALSE)
    /\ UNCHANGED <<extVars, ctlVars, trainerVars, gameVars>>

NextCodec ==
    \/ save
    \/ agentLoad
    \/ train
    \/ DamageFile
    \/ loadModel

SpecCodec == Init /\ [][NextCodec]_vars

(***************************************************************************)
(* The game loop in keyboard mode.                                         *)
(***************************************************************************)
\* one turn of Game::run: handleInput with the keys held (dir from A and D,
\* w the fly key), then update; the features are those the next frame sees
GameFrame ==
    /\ frames < MaxFrames
    /\ \E dir \in -1..1, w \in BOOLEAN :
          /\ (dir # 0 \/ w) => keyFrames < MaxKeyFrames
          /\ keyFrames' = IF dir # 0 \/ w THEN keyFrames + 1 ELSE keyFrames
          /\ \E r \in {GameFrameResult(player, safety, levelData, dir, w)} :
                /\ player' = r.player
                /\ safety' = r.safety
                /\ features' = extractFeatures(r.player, levelData)
    /\ frames' = frames + 1
    /\ ret' = Ret("frame", NullOutcome, 0, FALSE)
    /\ UNCHANGED <<extVars, ctlVars, trainerVars, fileVars, levelData>>

NextGame == GameFrame

SpecGame == Init /\ [][NextGame]_vars

(***************************************************************************)
(* Properties of the controller.                                           *)
(***************************************************************************)
RandomPaths == {"random_exception", "random_nomodel", "random_empty",
                "random_dimension", "random_incomplete"}

\* C1: while the AI is disabled, every decideAction and every
\* decideActionWithDetails returns the null action {0, 0}, whatever the
\* load state and whatever calls came before
C1_DisabledReturnsNull ==
    (ret.op \in DecideOps /\ ~aiEnabled) =>
        (ret.out.moveX = 0 /\ ret.out.useEnergy = 0 /\ ret.out.path = "null")

\* a decide call made disabled, with a model loaded, after calls made enabled
C1_Witness ==
    /\ ret.op = "decideActionWithDetails"
    /\ ~aiEnabled
    /\ modelLoaded
    /\ histLen > 0

\* C2: enabled with no model loaded (never loaded, or the last loadModel
\* failed, also after an earlier success), every decide call returns the
\* random fallback and the forward pass never runs on the stored tensors
C2_NoModelRandomFallback ==
    (ret.op \in DecideOps /\ aiEnabled /\ ~modelLoaded) =>
        (ret.out.path \in RandomPaths /\ ~ret.out.evaluated)

\* a decide call made enabled, without a model, while the tensors of an
\* earlier load are still stored at full size
C2_Witness ==
    /\ ret.op = "decideActionWithDetails"
    /\ aiEnabled
    /\ ~modelLoaded
    /\ ~ret.threw
    /\ Len(modelWeights) = 6
    /\ Len(modelBias) = 6
    /\ ForwardInBounds(modelWeights, modelBias)

\* C3: enabled with a model loaded, a feature vector of a length other than
\* 130, a tensor of a wrong length, or an exception makes decide return the
\* random fallback: nothing is propagated, no tensor changes, nothing is read
\* past a tensor's end
C3_ErrorsFallBackToRandom ==
    [][(/\ ret'.op \in DecideOps
        /\ aiEnabled
        /\ modelLoaded
        /\ \/ ret'.threw
           \/ ret'.featLen # inputDim
           \/ ~ForwardInBounds(modelWeights, modelBias))
       => (/\ ret'.out.path \in RandomPaths
           /\ ~ret'.out.oob
           /\ ~ret'.out.crashed
           /\ modelWeights' = modelWeights
           /\ modelBias' = modelBias)]_vars

\* a decide call made enabled with a model loaded on a vector of the wrong
\* length, answered by the random fallback
C3_Witness ==
    /\ ret.op = "decideAction"
    /\ aiEnabled
    /\ modelLoaded
    /\ ~ret.threw
    /\ ret.featLen # inputDim
    /\ ret.out.path = "random_dimension"

\* C4: in every controller state and on every path the action returned by
\* decide has moveX in {-1, 0, 1} and useEnergy in {0, 1}; so has every
\* discretised output pair
C4_ActionInRange ==
    /\ ret.op \in DecideOps => (ret.out.moveX \in {-1, 0, 1} /\ ret.out.useEnergy \in {0, 1})
    /\ \A raw \in RawOutputs : Discretize(raw) \in ({-1, 0, 1} \X {0, 1})

\* a decide call made enabled with a model loaded that moves left and flies
C4_Witness ==
    /\ ret.op \in DecideOps
    /\ aiEnabled
    /\ modelLoaded
    /\ ret.out.moveX = -1
    /\ ret.out.useEnergy = 1

(***************************************************************************)
(* Properties of the model file.                                           *)
(***************************************************************************)
\* every count of the file is the fixed size of its block
FileLengthsOk(f) ==
    /\ f.exists
    /\ Len(f.blocks) >= 12
    /\ \A k \in 1..6 : f.blocks[k].len = layerSizes[k]
    /\ \A k \in 1..6 : f.blocks[k + 6].len = biasSizes[k]

\* the file holds all twelve blocks, each with all its floats
FileComplete(f) ==
    /\ FileLengthsOk(f)
    /\ \A k \in 1..12 : f.blocks[k].have = f.blocks[k].len

\* C5: the controller's loadModel and the trainer's load both check the
\* twelve counts against the fixed sizes and fail at the first mismatch; no
\* tensor is ever resized to a length found in the file
C5_EveryLoadChecksLengths ==
    /\ \A k \in 1..6 : network[k].len = layerSizes[k] /\ biases[k].len = biasSizes[k]
    /\ (ret.op = "loadModel" /\ modelLoaded) =>
          \A k \in 1..6 : /\ modelWeights[k].len = layerSizes[k]
                          /\ modelBias[k].len = biasSizes[k]

\* C6: loadModel ends with the model loaded only if all twelve blocks were
\* read completely; a missing, truncated or corrupt file ends in no-model
C6_LoadedOnlyIfComplete ==
    (ret.op = "loadModel" /\ modelLoaded) => FileComplete(file)

\* C7: saving parameters of the fixed topology and loading that file gives
\* back the same parameters, element by element, tensor by tensor
C7_SaveLoadRoundTrip ==
    (ret.op = "load" /\ saved.valid /\ ValidParams(saved.net, saved.bia)) =>
        (network = saved.net /\ biases = saved.bia)

\* a load that brought back saved parameters over newer ones
C7_Witness ==
    /\ ret.op = "load"
    /\ saved.valid
    /\ ValidParams(saved.net, saved.bia)
    /\ network = saved.net
    /\ biases = saved.bia
    /\ network[1].id # ContentId(version, 1)

\* C8: the controller's loadModel accepts the file the trainer saved for the
\* fixed topology, and controller tensor k is trainer tensor k
C8_TrainerFileLoadsInController ==
    (ret.op = "loadModel" /\ saved.valid /\ ValidParams(saved.net, saved.bia)) =>
        /\ modelLoaded
        /\ modelWeights = saved.net
        /\ modelBias = saved.bia

\* a loadModel of a file saved after training
C8_Witness ==
    /\ ret.op = "loadModel"
    /\ saved.valid
    /\ ValidParams(saved.net, saved.bia)
    /\ modelLoaded
    /\ modelWeights[6] = saved.net[6]
    /\ modelBias[6].id = ContentId(2, 12)

(***************************************************************************)
(* Properties of the feature vector.                                       *)
(***************************************************************************)
\* the fraction f lies in [lo, 1], lo being -1 or 0
FractionWithin(f, lo) == lo * f[2] <= f[1] /\ f[1] <= f[2]

\* the documented range of feature i (from 1): position, velocity, target
\* angle and target position in [-1, 1], the others in [0, 1]
FeatureInRange(i, f) ==
    IF i \in {1, 2, 3, 4, 8, 9, 10} THEN FractionWithin(f, -1)
    ELSE FractionWithin(f, 0)

\* C9: for every player state and every non-empty grid the vector built by
\* extractFeatures has 130 elements: 10 scalars, 60 ray distances, 60 hit
\* flags
C9_FeatureVectorHas130 ==
    levelData # EmptyLevel => Len(features) = 10 + 60 + 60

\* C10: every element leaving extractFeatures lies in its documented range,
\* for every player state the game reaches, a fall at the speed limit
\* included
C10_FeaturesInRange ==
    \A i \in 1..Len(features) : FeatureInRange(i, features[i])

(***************************************************************************)
(* From a recorded frame to a training sample: DataCollector records the   *)
(* frame, exportTrainingDataset writes it as a CSV row, the training       *)
(* program reads the row back.  Numbers are fractions in their own units   *)
(* (pixels, pixels per second, radians).                                   *)
(***************************************************************************)
\* DataCollector::getCurrentFrameData with the keys held (dir from A and D,
\* w the fly key); the rays leave position + (width / 2, height / 2)
getCurrentFrameData(p, grid, dir, w) ==
    LET target == getTargetPosition(grid)
        dx == TruncDiv((target[1] - p.x) * 10, PXU)
        dy == TruncDiv((target[2] - p.y) * 10, PXU)
        center == <<(p.x + PlayerSize \div 2) * (RAYU \div PXU),
                    (p.y + PlayerSize \div 2) * (RAYU \div PXU)>>
    IN  CHOOSE fr \in
            {[position |-> <<<<p.x, PXU>>, <<p.y, PXU>>>>,
              velocity |-> <<<<p.vx, 10>>, <<p.vy, 10>>>>,
              energy |-> <<p.energy, maxEnergy * ENU>>,
              target |-> <<<<target[1], PXU>>, <<target[2], PXU>>>>,
              rayDistances |-> [r \in 1..Len(rays) |-> <<rays[r].distance, 1>>],
              rayHits |-> [r \in 1..Len(rays) |-> IF rays[r].hit THEN 1 ELSE 0],
              distanceToTarget |-> <<ISqrt(dx * dx + dy * dy), 10>>,
              angleToTarget |-> <<Atan2Milli(dy, dx), 1000>>,
              isGrounded |-> p.onGround,
              moveX |-> dir,
              useEnergy |-> IF w /\ p.energy > 0 THEN 1 ELSE 0] :
                rays \in {castRays(center, grid, DefaultRaysPerQuadrant)}} : TRUE

\* operator<< of a float: six significant digits
RECURSIVE FormatScale(_, _, _)
FormatScale(a, den, s) ==
    IF a * s >= 100000 * den THEN s ELSE FormatScale(a, den, s * 10)
FormatFloat(f) ==
    IF f[1] = 0 THEN <<0, 1>>
    ELSE LET a == Abs(f[1])
             s == FormatScale(a, f[2], 1)
             m == (2 * a * s + f[2]) \div (2 * f[2])
         IN  <<IF f[1] < 0 THEN -m ELSE m, s>>

\* the columns of the ray block: 60 of them, "0.0" past the rays recorded
RayColumns == 60

\* the data row exportTrainingDataset writes for a frame
CsvRow(fr) ==
    <<FormatFloat(fr.position[1]), FormatFloat(fr.position[2]),
      FormatFloat(fr.velocity[1]), FormatFloat(fr.velocity[2]),
      FormatFloat(fr.energy),
      FormatFloat(fr.target[1]), FormatFloat(fr.target[2]),
      FormatFloat(fr.distanceToTarget), FormatFloat(fr.angleToTarget),
      <<IF fr.isGrounded THEN 1 ELSE 0, 1>>>>
    \o [i \in 1..RayColumns |->
          IF i <= Len(fr.rayDistances) THEN FormatFloat(fr.rayDistances[i])
          ELSE <<0, 1>>]
    \o [i \in 1..RayColumns |->
          IF i <= Len(fr.rayHits) THEN <<fr.rayHits[i], 1>> ELSE <<0, 1>>]
    \o <<<<fr.moveX, 1>>, <<IF fr.useEnergy # 0 THEN 1 ELSE 0, 1>>>>

\* the sample the training program builds from a row of at least 132
\* columns: the first 130 are the state, the next two the action
TrainingSample(row) ==
    [state |-> SubSeq(row, 1, inputDim),
     action |-> SubSeq(row, inputDim + 1, inputDim + outputDim)]

\* a fraction in thousandths, rounded down
Milli(f) ==
    IF f[2] >= 1000000 /\ f[2] % 1000 = 0 THEN f[1] \div (f[2] \div 1000)
    ELSE (f[1] * 1000) \div f[2]

\* two fractions that differ by no more than the printing of a float can
SameValue(a, b) == Abs(Milli(a) - Milli(b)) <= 1

\* C11: the state vector of the training sample built from the CSV row of a
\* frame is the vector extractFeatures builds for that frame: the same
\* field with the same normalisation at every index 0..129
C11_TrainingStateIsFeatureVector ==
    \E st \in {TrainingSample(CsvRow(getCurrentFrameData(player, levelData, 0, FALSE))).state} :
        \A i \in 1..inputDim :
            i <= Len(features) /\ SameValue(st[i], features[i])

(***************************************************************************)
(* The pure functions, called on their own: the discretisation of the      *)
(* output pair, castRays and castSingleRay.  They keep no state, so a run  *)
(* makes one call.                                                         *)
(***************************************************************************)
\* raw outputs tried, in hundredths: -RawSpan..RawSpan and 0..2*RawSpan
RawSpan == 36
RawInputs == {<<a, b>> : a \in -RawSpan..RawSpan, b \in 0..(2 * RawSpan)}

\* a level without border walls, with every obstacle character, a short row
\* and an empty one
ProbeGrid ==
    << <<"0", "0", "0", "M", "0">>,
       <<"0", "W", "0", "0", "0">>,
       <<"0", "0">>,
       <<>>,
       <<"0", "3", "0", "0", "4">>,
       <<"1", "0", "T", "P", "0">> >>

\* ray origins, in pixels: left of and above the level, inside it, past it
ProbeOrigins ==
    {<<x * RAYU, y * RAYU>> : x \in {-20, -5, 22, 52, 80},
                              y \in {-20, 7, 22, 37, 67, 82, 100}}

\* the rays per quadrant whose angles are multiples of pi / 8
RaysPerQuadrantChoices == {1, 2, 4}
ProbeDirections ==
    {Direction(q, i, DefaultRaysPerQuadrant) :
        q \in 0..3, i \in 0..(DefaultRaysPerQuadrant - 1)}

\* the discretisation applied to a raw output pair
CallDiscretize ==
    /\ probe = NoProbe
    /\ \E raw \in RawInputs :
          probe' = [fn |-> "discretize", in |-> raw, out |-> Discretize(raw)]
    /\ UNCHANGED <<ret, ctlVars, trainerVars, fileVars, gameVars, runVars, dataVars>>

\* RayCasting::castRays(origin, levelData, raysPerQuadrant)
CallCastRays ==
    /\ probe = NoProbe
    /\ \E origin \in ProbeOrigins, grid \in {EmptyLevel, LevelGrid, ProbeGrid},
          n \in RaysPerQuadrantChoices :
          probe' = [fn |-> "castRays",
                    in |-> [origin |-> origin, grid |-> grid, raysPerQuadrant |-> n],
                    out |-> castRays(origin, grid, n)]
    /\ UNCHANGED <<ret, ctlVars, trainerVars, fileVars, gameVars, runVars, dataVars>>

\* RayCasting::castSingleRay(origin, direction, levelData), which castRays
\* calls on a level with at least one row
CallCastSingleRay ==
    /\ probe = NoProbe
    /\ \E origin \in ProbeOrigins, dir \in ProbeDirections,
          grid \in {LevelGrid, ProbeGrid} :
          probe' = [fn |-> "castSingleRay",
                    in |-> [origin |-> origin, dir |-> dir, grid |-> grid],
                    out |-> castSingleRay(origin, dir, grid)]
    /\ UNCHANGED <<ret, ctlVars, trainerVars, fileVars, gameVars, runVars, dataVars>>

\* samples of a dataset that is split (a sample is known by its number)
MaxSamples == 4

\* the orders std::shuffle can leave n elements in
Shuffles(n) == {f \in [1..n -> 1..n] : \A i, j \in 1..n : f[i] = f[j] => i = j}

\* SLTrainer::splitDatasetFromTrainingData of samples 1..n, the shuffle
\* having left them in the order sh
splitDatasetFromTrainingData(n, sh, c) ==
    [trainSet |-> SubSeq(sh, 1, (n * (100 - c.validationSplit)) \div 100),
     valSet |-> SubSeq(sh, (n * (100 - c.validationSplit)) \div 100 + 1, n)]

\* the minibatches without the one that is not full
MinibatchesFullOnly(indices, batchSize) ==
    [k \in 1..(Len(indices) \div batchSize) |->
        SubSeq(indices, (k - 1) * batchSize + 1, Min(k * batchSize, Len(indices)))]

\* the minibatches of an epoch of trainFromData over the shuffled indices
Minibatches(indices, batchSize) ==
    [k \in 1..((Len(indices) + batchSize - 1) \div batchSize) |->
        SubSeq(indices, (k - 1) * batchSize + 1, Min(k * batchSize, Len(indices)))]

\* the split of a dataset and the minibatches of one epoch over its
\* training set: the training samples are shuffled again for the epoch
CallSplit ==
    /\ probe = NoProbe
    /\ \E n \in 0..MaxSamples, split \in {0, 20, 50, 100}, batchSize \in 1..3 :
          \E sh \in Shuffles(n) :
             LET c == [DefaultConfig EXCEPT !.validationSplit = split,
                                            !.batchSize = batchSize]
                 sp == splitDatasetFromTrainingData(n, sh, c)
             IN  \E ep \in Shuffles(Len(sp.trainSet)) :
                    probe' = [fn |-> "split",
                              in |-> [n |-> n, config |-> c],
                              out |-> [trainSet |-> sp.trainSet, valSet |-> sp.valSet,
                                       batches |-> Minibatches(
                                           [i \in 1..Len(sp.trainSet) |-> sp.trainSet[ep[i]]],
                                           batchSize)]]
    /\ UNCHANGED <<ret, ctlVars, trainerVars, fileVars, gameVars, runVars, dataVars>>

\* SafetyChecker::checkPositionSafety for an entity that is registered or
\* not, at every third pixel of a square level that has a wall tile in its
\* middle as well as around it
CallCheckPositionSafety ==
    /\ probe = NoProbe
    /\ \E registered \in BOOLEAN,
          i \in -1..((GridCols * TILE) \div 3), j \in -1..((GridCols * TILE) \div 3) :
          LET grid == [y \in 1..GridCols |-> [x \in 1..GridCols |->
                          IF x = GridCols \div 2 + 1 /\ y = GridCols \div 2 + 1
                          THEN "1" ELSE LevelCell(x - 1, IF y = GridCols THEN GridRows - 1
                                                                       ELSE y - 1)]]
              p == [SpawnPlayer(LevelGrid) EXCEPT !.x = 3 * i * PXU, !.y = 3 * j * PXU]
          IN  probe' = [fn |-> "checkPositionSafety",
                        in |-> [registered |-> registered, x |-> p.x, y |-> p.y,
                                grid |-> grid],
                        out |-> [reason |-> IF registered
                                            THEN checkPositionSafety(p, grid)
                                            ELSE "Entity not found"]]
    /\ UNCHANGED <<ret, ctlVars, trainerVars, fileVars, gameVars, runVars, dataVars>>

NextPure ==
    \/ CallDiscretize
    \/ CallCastRays
    \/ CallCastSingleRay
    \/ CallSplit
    \/ CallCheckPositionSafety

SpecPure == Init /\ [][NextPure]_vars

DistancesInRange(hits) ==
    \A r \in 1..Len(hits) : hits[r].distance >= 0 /\ hits[r].distance <= MAX_DISTANCE

ObstacleCell(g, c) ==
    ~RayOutside(g, c) /\ g[c[2] + 1][c[1] + 1] \in {"1", "M", "W", "3", "4"}

\* the steps before step e all fell on cells of the grid that are no
\* obstacle
FreeBefore(o, d, g, e) ==
    \A f \in 0..(e - 1) :
        ~RayOutside(g, RayCell(o, d, f)) /\ ~ObstacleCell(g, RayCell(o, d, f))

\* C14: when a step of castSingleRay falls outside the grid before any
\* obstacle cell was met, the result is hit = false, distance =
\* MAX_DISTANCE; when an obstacle cell ('1', 'M', 'W', '3', '4') is met
\* first, the result is hit = true with the distance of that step
C14_RayStopsAtBoundsOrObstacle ==
    probe.fn = "castSingleRay" =>
        \E o \in {probe.in.origin}, d \in {probe.in.dir}, g \in {probe.in.grid} :
            \A e \in 0..(MAX_DISTANCE - 1) :
                /\ (RayOutside(g, RayCell(o, d, e)) /\ FreeBefore(o, d, g, e))
                      => (~probe.out.hit /\ probe.out.distance = MAX_DISTANCE)
                /\ (ObstacleCell(g, RayCell(o, d, e)) /\ FreeBefore(o, d, g, e))
                      => (probe.out.hit /\ probe.out.distance = e)

\* a ray that starts inside the level without walls and leaves it
C14_Witness ==
    /\ probe.fn = "castSingleRay"
    /\ probe.in.grid = ProbeGrid
    /\ ~probe.out.hit
    /\ probe.out.distance = MAX_DISTANCE
    /\ ~RayOutside(probe.in.grid, RayCell(probe.in.origin, probe.in.dir, 0))
    /\ \E e \in 1..(MAX_DISTANCE - 1) :
          /\ RayOutside(probe.in.grid, RayCell(probe.in.origin, probe.in.dir, e))
          /\ FreeBefore(probe.in.origin, probe.in.dir, probe.in.grid, e)

(***************************************************************************)
(* Training: TrainingManager::startTraining in its single-frame mode and   *)
(* the training program (train_sl), both around SLTrainer::trainFromData.  *)
(* One run of the epoch loop is followed an epoch at a time.               *)
(***************************************************************************)
\* finite validation losses are 1..MaxLoss
MaxLoss == 3
\* std::numeric_limits<float>::max()
FltMax == Loss(MaxLoss + 1)

\* the configuration the two training programs set, the same without a
\* validation split, and a short run
MainConfig ==
    [batchSize |-> 256, epochs |-> 50, validationSplit |-> 20,
     earlyStoppingPatience |-> 10]
TrainConfigs ==
    {MainConfig,
     [MainConfig EXCEPT !.validationSplit = 0],
     [batchSize |-> 2, epochs |-> 3, validationSplit |-> 20,
      earlyStoppingPatience |-> 2]}

\* the datasets handed to startTraining: none, one or five samples, with
\* state vectors of 130, 42, 132 or no elements and action vectors of 2 or 1
Datasets ==
    {Dataset(0, inputDim, outputDim)}
    \cup {Dataset(n, sl, outputDim) : n \in {1, 5}, sl \in {inputDim, 42, 132, 0}}
    \cup {Dataset(5, inputDim, 1)}

\* splitDatasetFromTrainingData: static_cast<size_t>(n * (1 - validationSplit))
TrainSize(n, c) == (n * (100 - c.validationSplit)) \div 100
\* the batches of one epoch
BatchCount(trainSize, c) == (trainSize + c.batchSize - 1) \div c.batchSize

\* TrainingManager::validateData
validateData(d) == d.n > 0 /\ d.stateLen > 0 /\ d.actionLen > 0

\* the forward pass reads state[0..129], the backward pass action[0..1]:
\* past the end of a shorter vector
ReadsPastEnd(d) == d.stateLen < inputDim \/ d.actionLen < outputDim

\* BehaviorCloningAgent::evaluate on the validation set
ValLosses(d, c) ==
    IF d.n - TrainSize(d.n, c) = 0 THEN {NaN}
    ELSE {Loss(v) : v \in 1..MaxLoss}

\* the early stopping test with a counter that an improving epoch leaves
EarlyStoppingNoReset(valLoss, best, bestEp, counter, ep, patience) ==
    IF Less(valLoss, best)
    THEN [bestValLoss |-> valLoss, bestEpoch |-> ep, patienceCounter |-> counter,
          stop |-> FALSE]
    ELSE [bestValLoss |-> best, bestEpoch |-> bestEp, patienceCounter |-> counter + 1,
          stop |-> counter + 1 >= patience]

\* the early stopping test at the end of an epoch
EarlyStopping(valLoss, best, bestEp, counter, ep, patience) ==
    IF Less(valLoss, best)
    THEN [bestValLoss |-> valLoss, bestEpoch |-> ep, patienceCounter |-> 0,
          stop |-> FALSE]
    ELSE [bestValLoss |-> best, bestEpoch |-> bestEp, patienceCounter |-> counter + 1,
          stop |-> counter + 1 >= patience]

\* the step argument of agent->train: epoch * batchCount, batchCount being
\* the batches of this epoch already done
AdamStep(ep, batchCount) == ep * batchCount

\* the history after epoch ep, which made bc updates and ended with
\* parameter version v and validation loss valLoss
LogEpoch(l, ep, bc, v, valLoss) ==
    [epochsRun |-> l.epochsRun + 1,
     steps |-> [b \in 1..bc |-> AdamStep(ep, b - 1)],
     updates |-> l.updates + bc,
     bestVersion |-> IF l.epochsRun = 0 \/ Less(valLoss, l.minLoss) THEN v
                     ELSE l.bestVersion,
     minLoss |-> IF l.epochsRun = 0 \/ Less(valLoss, l.minLoss) THEN valLoss
                 ELSE l.minLoss,
     flat |-> IF ~valLoss.nan /\ (l.epochsRun = 0 \/ l.minLoss.nan \/ Less(valLoss, l.minLoss))
              THEN 0 ELSE l.flat + 1,
     marginBest |-> IF ~valLoss.nan /\ (l.marginBest.nan \/ valLoss.v + 1 < l.marginBest.v)
                    THEN valLoss ELSE l.marginBest,
     stall |-> IF ~valLoss.nan /\ (l.marginBest.nan \/ valLoss.v + 1 < l.marginBest.v)
               THEN 0 ELSE l.stall + 1]

\* the callers of SLTrainer::trainFromData
TrainOps == {"startTraining", "train_sl"}

\* trainFromData up to its loop: the split, the early return on an empty
\* training set, the counters of the loop.  A caller of a trainFromData
\* that returned at once goes on: startTraining evaluates the model on the
\* episodes (a forward pass over every state) and reports success, the
\* training program saves the model and exits with 0.
EnterTraining(caller, c, d) ==
    /\ config' = c
    /\ dataset' = d
    /\ epoch' = 0
    /\ bestEpoch' = 0
    /\ bestValLoss' = FltMax
    /\ patienceCounter' = 0
    /\ log' = NoLog
    /\ UNCHANGED trainerVars
    /\ IF TrainSize(d.n, c) = 0 \/ c.epochs = 0
       THEN \E segv \in BOOLEAN, writable \in BOOLEAN :
               /\ pc' = "idle"
               /\ IF caller = "startTraining" /\ d.stateLen < inputDim /\ segv
                  THEN /\ result' = [NoResult EXCEPT !.caller = caller, !.op = caller,
                                                     !.crashed = TRUE]
                       /\ UNCHANGED fileVars
                  ELSE /\ result' = [NoResult EXCEPT
                                        !.caller = caller, !.op = caller,
                                        !.success = TRUE,
                                        !.saveFailed = (caller = "train_sl" /\ ~writable)]
                       /\ IF caller = "train_sl" /\ writable
                          THEN /\ file' = [exists |-> TRUE,
                                           blocks |-> SaveBlocks(network, biases)]
                               /\ saved' = [valid |-> TRUE, net |-> network,
                                            bia |-> biases]
                          ELSE UNCHANGED fileVars
       ELSE /\ pc' = "loop"
            /\ result' = [NoResult EXCEPT !.caller = caller,
                                          !.trainSize = TrainSize(d.n, c)]
            /\ UNCHANGED fileVars

\* TrainingManager::startTraining, single-frame mode (trainTraditional)
startTraining ==
    /\ pc = "idle"
    /\ result.caller = "none"
    /\ \E c \in TrainConfigs, d \in Datasets :
          IF ~validateData(d)
          THEN /\ config' = c
               /\ dataset' = d
               /\ result' = [NoResult EXCEPT !.caller = "startTraining",
                                             !.op = "startTraining",
                                             !.errorMessage = "Invalid training data",
                                             !.signal = "invalid_data"]
               /\ UNCHANGED <<pc, epoch, bestEpoch, bestValLoss, patienceCounter, log,
                              trainerVars, fileVars>>
          ELSE EnterTraining("startTraining", c, d)
    /\ UNCHANGED <<ret, ctlVars, gameVars, probeVars, dataVars>>

\* main of the training program: the rows of the CSV file with at least 132
\* columns become samples of 130 state and 2 action values; no row, exit 1
trainSlMain ==
    /\ pc = "idle"
    /\ result.caller = "none"
    /\ \E n \in {0, 1, 5} :
          IF n = 0
          THEN /\ config' = MainConfig
               /\ dataset' = Dataset(0, inputDim, outputDim)
               /\ result' = [NoResult EXCEPT !.caller = "train_sl", !.op = "train_sl",
                                             !.errorMessage = "No training data found",
                                             !.signal = "no_data"]
               /\ UNCHANGED <<pc, epoch, bestEpoch, bestValLoss, patienceCounter, log,
                              trainerVars, fileVars>>
          ELSE EnterTraining("train_sl", MainConfig, Dataset(n, inputDim, outputDim))
    /\ UNCHANGED <<ret, ctlVars, gameVars, probeVars, dataVars>>

\* one pass of the epoch loop of trainFromData: the batches (gradients and
\* Adam update, no test of the vectors' lengths), the validation loss, the
\* early stopping test, the checkpoint every 20 epochs; after the last pass
\* the return to the caller, as in EnterTraining.  Reading past the end of
\* a short vector is undefined: the run is killed, or goes on with what the
\* read found.  A save that cannot open its file returns silently.
epochStep ==
    /\ pc = "loop"
    /\ \E segv \in BOOLEAN, valLoss \in ValLosses(dataset, config),
          writable \in BOOLEAN, writableLast \in BOOLEAN :
          IF ReadsPastEnd(dataset) /\ segv
          THEN /\ pc' = "idle"
               /\ result' = [result EXCEPT !.op = result.caller, !.crashed = TRUE]
               /\ UNCHANGED <<epoch, bestEpoch, bestValLoss, patienceCounter, log,
                              trainerVars, fileVars>>
          ELSE LET bc == BatchCount(result.trainSize, config)
                   v == version + bc
                   es == EarlyStopping(valLoss, bestValLoss, bestEpoch,
                                       patienceCounter, epoch,
                                       config.earlyStoppingPatience)
                   checkpoint == ~es.stop /\ epoch % 20 = 0 /\ epoch > 0
                   last == es.stop \/ epoch + 1 >= config.epochs
                   finalSave == last /\ result.caller = "train_sl"
               IN  /\ version' = v
                   /\ network' = initializeNetwork(v).net
                   /\ biases' = initializeNetwork(v).bia
                   /\ bestValLoss' = es.bestValLoss
                   /\ bestEpoch' = es.bestEpoch
                   /\ patienceCounter' = es.patienceCounter
                   /\ epoch' = IF es.stop THEN epoch ELSE epoch + 1
                   /\ log' = LogEpoch(log, epoch, bc, v, valLoss)
                   /\ pc' = IF last THEN "idle" ELSE "loop"
                   /\ result' = [result EXCEPT
                         !.op = IF last THEN result.caller ELSE @,
                         !.success = last,
                         !.stoppedEarly = es.stop,
                         !.checkpoints = IF checkpoint /\ writable THEN @ + 1 ELSE @,
                         !.saveFailed = @ \/ (checkpoint /\ ~writable)
                                          \/ (finalSave /\ ~writableLast)]
                   /\ IF finalSave /\ writableLast
                      THEN /\ file' = [exists |-> TRUE,
                                       blocks |-> SaveBlocks(network', biases')]
                           /\ saved' = [valid |-> TRUE, net |-> network',
                                        bia |-> biases']
                      ELSE UNCHANGED fileVars
    /\ UNCHANGED <<config, dataset, ret, ctlVars, gameVars, probeVars, dataVars>>

NextTrain == startTraining \/ trainSlMain \/ epochStep

SpecTrain == Init /\ [][NextTrain]_vars

\* a caller of trainFromData has its answer
Returned == pc = "idle" /\ result.op \in TrainOps /\ ~result.crashed

\* C15: when the training set is empty (no sample, or a training split
\* floor(n * (1 - validationSplit)) of 0), training makes no parameter
\* update and the caller gets an explicit failure signal, never a success.
C15_EmptyTrainingSetFails ==
    (Returned /\ TrainSize(dataset.n, config) = 0)
        => /\ ~result.success
           /\ result.signal \in {"no_data", "invalid_data"}
           /\ log.updates = 0

\* C16: a dataset with a state vector of a length other than 130, or an
\* action vector of a length other than 2, never enters the epoch loop: no
\* pass indexes into it and it causes no parameter update.
C16_MismatchedBatchRejected ==
    (dataset.n > 0 /\ (dataset.stateLen # inputDim \/ dataset.actionLen # outputDim))
        => /\ pc = "idle"
           /\ log.updates = 0
           /\ ~result.crashed

\* C17: when a save of the training path (checkpoint or final save) could
\* not write its file, the run has ended and the caller has a failure
\* signal instead of a success.
C17_SaveFailureSurfaced ==
    result.saveFailed
        => /\ pc = "idle"
           /\ ~result.success
           /\ result.signal # "none"

\* C18: when trainFromData has returned from a run of at least one epoch,
\* the trainer holds the parameters of the epoch with the lowest validation
\* loss of the run.
C18_ReturnsBestEpochParameters ==
    (Returned /\ log.epochsRun > 0)
        => /\ version = log.bestVersion
           /\ network = initializeNetwork(log.bestVersion).net
           /\ biases = initializeNetwork(log.bestVersion).bia

\* C20 as stated, the margin being one unit of loss: the loop runs at most
\* config.epochs epochs, is still running only while fewer than
\* earlyStoppingPatience epochs in a row have failed to improve on the best
\* loss by more than the margin, stops early only after that many, and the
\* patience counter is 0 after every epoch that improved by more than the
\* margin.
C20_EarlyStopWithMargin ==
    /\ log.epochsRun <= config.epochs
    /\ pc = "loop" => log.stall < config.earlyStoppingPatience
    /\ result.stoppedEarly => log.stall = config.earlyStoppingPatience
    /\ (Returned /\ log.epochsRun > 0 /\ ~result.stoppedEarly)
           => log.epochsRun = config.epochs
    /\ (log.epochsRun > 0 /\ log.stall = 0) => patienceCounter = 0

\* C20: the loop runs at most config.epochs epochs, is still running only
\* while fewer than earlyStoppingPatience epochs in a row have failed to go
\* below the lowest validation loss seen before them, stops early exactly
\* after that many, runs all config.epochs epochs otherwise, and the
\* patience counter is 0 after every epoch that went below.
C20_EarlyStop ==
    /\ log.epochsRun <= config.epochs
    /\ pc = "loop" => log.flat < config.earlyStoppingPatience
    /\ result.stoppedEarly => log.flat = config.earlyStoppingPatience
    /\ (Returned /\ log.epochsRun > 0 /\ ~result.stoppedEarly)
           => log.epochsRun = config.epochs
    /\ (log.epochsRun > 0 /\ log.flat = 0) => patienceCounter = 0

\* a run that improved after its first epoch and later stopped early
C20_Witness ==
    /\ Returned
    /\ result.stoppedEarly
    /\ bestEpoch > 0
    /\ log.flat = config.earlyStoppingPatience
    /\ log.epochsRun < config.epochs

(***************************************************************************)
(* Data collection: the game records frames into episodes, appends the     *)
(* episodes to collected_data.bin and exports them to the CSV file.  A     *)
(* frame is known by the number it was recorded as; a row of the CSV file  *)
(* is the number of the frame it holds.                                    *)
(***************************************************************************)
\* games of one run of the program, frames of one game, frames recorded,
\* episodes started
MaxGames == 6
MaxEpisodeFrames == 2
MaxRecorded == 3
MaxEpisodeId == 7

\* the frame numbers of a sequence of episodes, in order
RECURSIVE FramesOf(_)
FramesOf(eps) ==
    IF eps = <<>> THEN <<>>
    ELSE [i \in 1..Len(Head(eps).frames) |-> Head(eps).frames[i].id]
         \o FramesOf(Tail(eps))

\* DataCollector::startEpisode: an episode that was not ended is deleted
startEpisode(enabled, cur, next) ==
    IF enabled
    THEN [currentEpisode |-> [active |-> TRUE, episodeId |-> next, steps |-> 0,
                              frames |-> <<>>],
          nextEpisodeId |-> next + 1]
    ELSE [currentEpisode |-> cur, nextEpisodeId |-> next]

\* DataCollector::recordCurrentFrame of frame number n (terminal is false
\* in what getCurrentFrameData returns): the current episode after it
recordCurrentFrame(enabled, cur, n) ==
    IF enabled /\ cur.active
    THEN [cur EXCEPT !.frames = Append(@, [id |-> n, terminal |-> FALSE,
                                           episode |-> cur.episodeId]),
                     !.steps = @ + 1]
    ELSE cur

\* endEpisode that leaves the terminal flags as they are
endEpisodeNoTerminal(enabled, cur, eps, limit) ==
    IF enabled /\ cur.active
    THEN LET all == Append(eps, [episodeId |-> cur.episodeId, steps |-> cur.steps,
                                 frames |-> cur.frames])
         IN  [episodes |-> IF limit >= 0 /\ Len(all) > limit THEN Tail(all) ELSE all,
              currentEpisode |-> NoEpisode]
    ELSE [episodes |-> eps, currentEpisode |-> cur]

\* DataCollector::endEpisode: the episodes and the current episode after
\* it.  The limit is compared as a size_t: a negative one is never reached.
endEpisode(enabled, cur, eps, limit) ==
    IF enabled /\ cur.active
    THEN LET fr == [i \in 1..Len(cur.frames) |->
                       IF i = Len(cur.frames)
                       THEN [cur.frames[i] EXCEPT !.terminal = TRUE]
                       ELSE cur.frames[i]]
             all == Append(eps, [episodeId |-> cur.episodeId, steps |-> cur.steps,
                                 frames |-> fr])
         IN  [episodes |-> IF limit >= 0 /\ Len(all) > limit THEN Tail(all) ELSE all,
              currentEpisode |-> NoEpisode]
    ELSE [episodes |-> eps, currentEpisode |-> cur]

\* DataCollector::saveEpisodeData: the episodes whose id is at least one
\* more than the largest id in the file are appended
saveEpisodeData(f, eps, writable) ==
    LET ids == {f[i].episodeId : i \in 1..Len(f)}
        startEpisodeId == IF ids = {} THEN 0
                          ELSE (CHOOSE m \in ids : \A k \in ids : k <= m) + 1
        IsNew(e) == e.episodeId >= startEpisodeId
    IN  IF writable THEN f \o SelectSeq(eps, IsNew) ELSE f

\* DataCollector::exportTrainingDataset: the header when the file is new,
\* then a row for every frame of every episode in memory
exportTrainingDataset(f, eps, writable) ==
    IF ~writable THEN f
    ELSE [exists |-> TRUE,
          headers |-> IF f.exists THEN f.headers ELSE 1,
          rows |-> f.rows \o FramesOf(eps)]

\* Game::saveCollectedData: the two files after it
saveCollectedData(f, b, eps, writableBin, writableCsv) ==
    IF Len(eps) = 0 THEN [csv |-> f, bin |-> b]
    ELSE [csv |-> exportTrainingDataset(f, eps, writableCsv),
          bin |-> saveEpisodeData(b, eps, writableBin)]

\* Game::resetLevel after the frame counter fc, the current episode cur and
\* the episodes eps
resetLevel(fc, cur, eps, writableBin, writableCsv) ==
    LET e == IF fc > 0 THEN endEpisode(recordingEnabled, cur, eps, episodeLimit)
             ELSE [episodes |-> eps, currentEpisode |-> cur]
        sv == IF recordingEnabled /\ (totalGamesCount + 1) % 5 = 0
              THEN saveCollectedData(csv, bin, e.episodes, writableBin, writableCsv)
              ELSE [csv |-> csv, bin |-> bin]
        st == startEpisode(recordingEnabled, e.currentEpisode, nextEpisodeId)
    IN  /\ totalGamesCount' = totalGamesCount + 1
        /\ csv' = sv.csv
        /\ bin' = sv.bin
        /\ episodes' = e.episodes
        /\ currentEpisode' = st.currentEpisode
        /\ nextEpisodeId' = st.nextEpisodeId
        /\ episodeFrameCount' = 0

\* the B key in Game::handleInput: recording is switched on and an episode
\* starts, or recording is switched off and endEpisode is called, which
\* then finds recording disabled
toggleRecording ==
    /\ running
    /\ nextEpisodeId < MaxEpisodeId
    /\ recordingEnabled' = ~recordingEnabled
    /\ IF ~recordingEnabled
       THEN /\ currentEpisode' =
                  startEpisode(TRUE, currentEpisode, nextEpisodeId).currentEpisode
            /\ nextEpisodeId' =
                  startEpisode(TRUE, currentEpisode, nextEpisodeId).nextEpisodeId
            /\ episodeFrameCount' = 0
            /\ episodes' = episodes
       ELSE /\ currentEpisode' =
                  endEpisode(FALSE, currentEpisode, episodes, episodeLimit).currentEpisode
            /\ episodes' =
                  endEpisode(FALSE, currentEpisode, episodes, episodeLimit).episodes
            /\ UNCHANGED <<nextEpisodeId, episodeFrameCount>>
    /\ UNCHANGED <<csv, bin, totalGamesCount, recorded, running, episodeLimit>>
    /\ UNCHANGED <<ret, ctlVars, trainerVars, fileVars, gameVars, probeVars, runVars>>

\* Game::update: the frame is counted and, when recording, recorded; when
\* the player reached the target or left the safe area the episode ends and
\* the level is reset
updateFrame ==
    /\ running
    /\ episodeFrameCount < MaxEpisodeFrames
    /\ (recordingEnabled /\ currentEpisode.active) => recorded < MaxRecorded
    /\ \E outcome \in {"play", "target", "unsafe"},
          writableBin \in BOOLEAN, writableCsv \in BOOLEAN :
          LET cur == recordCurrentFrame(recordingEnabled, currentEpisode, recorded + 1)
          IN  /\ recorded' = IF cur # currentEpisode THEN recorded + 1 ELSE recorded
              /\ IF outcome = "play"
                 THEN /\ currentEpisode' = cur
                      /\ episodeFrameCount' = episodeFrameCount + 1
                      /\ UNCHANGED <<episodes, csv, bin, totalGamesCount, nextEpisodeId>>
                 ELSE /\ totalGamesCount < MaxGames
                      /\ nextEpisodeId < MaxEpisodeId
                      /\ LET e == endEpisode(recordingEnabled, cur, episodes,
                                             episodeLimit)
                         IN  resetLevel(episodeFrameCount + 1, e.currentEpisode,
                                        e.episodes, writableBin, writableCsv)
    /\ UNCHANGED <<recordingEnabled, running, episodeLimit>>
    /\ UNCHANGED <<ret, ctlVars, trainerVars, fileVars, gameVars, probeVars, runVars>>

\* the window is closed: Game::~Game saves the collected data
shutdown ==
    /\ running
    /\ running' = FALSE
    /\ \E writableBin \in BOOLEAN, writableCsv \in BOOLEAN :
          /\ csv' = saveCollectedData(csv, bin, episodes, writableBin, writableCsv).csv
          /\ bin' = saveCollectedData(csv, bin, episodes, writableBin, writableCsv).bin
    /\ UNCHANGED <<recordingEnabled, currentEpisode, episodes, totalGamesCount,
                   episodeFrameCount, recorded, episodeLimit, nextEpisodeId>>
    /\ UNCHANGED <<ret, ctlVars, trainerVars, fileVars, gameVars, probeVars, runVars>>

NextData == toggleRecording \/ updateFrame \/ shutdown

SpecData == Init /\ [][NextData]_vars

\* C19: whenever the CSV file has been written to, it holds one header row
\* and exactly one data row for every frame recorded so far: none is
\* missing and none appears twice.
C19_OneRowPerRecordedFrame ==
    [][(csv' # csv) =>
           /\ csv'.headers = 1
           /\ \A i \in 1..recorded' :
                 Cardinality({k \in 1..Len(csv'.rows) : csv'.rows[k] = i}) = 1]_vars

\* C21: the step value a minibatch gives to the Adam update is the number
\* of updates made before it in the run: 0 for the first minibatch, one
\* more for each later one, across epochs.
C21_AdamStepIsGlobalCount ==
    \A b \in 1..Len(log.steps) :
        log.steps[b] = (log.updates - Len(log.steps)) + (b - 1)

\* C22: no average of a run has a zero denominator: every epoch that was
\* run evaluated a validation set of at least one sample, so that its
\* validation loss is a number, and divided its loss by at least one batch.
C22_NoZeroDenominator ==
    log.epochsRun > 0
        => /\ dataset.n - TrainSize(dataset.n, config) > 0
           /\ ~log.minLoss.nan
           /\ Len(log.steps) > 0

\* the elements of a sequence
Range(q) == {q[i] : i \in 1..Len(q)}

\* C23: the split partitions the samples (train and validation sets are
\* disjoint, together they are the whole dataset, and the train set has
\* floor(n * (1 - validationSplit)) samples); in an epoch every training
\* sample is in exactly one minibatch, and every minibatch but the last
\* has batchSize samples, the last between 1 and batchSize.
C23_SplitPartitionsAndBatchesCover ==
    probe.fn = "split" =>
        LET n == probe.in.n
            bs == probe.in.config.batchSize
            tr == probe.out.trainSet
            va == probe.out.valSet
            b == probe.out.batches
        IN  /\ Range(tr) \cap Range(va) = {}
            /\ Range(tr) \cup Range(va) = 1..n
            /\ Len(tr) + Len(va) = n
            /\ 100 * Len(tr) <= n * (100 - probe.in.config.validationSplit)
            /\ 100 * (Len(tr) + 1) > n * (100 - probe.in.config.validationSplit)
            /\ \A x \in Range(tr) :
                  Cardinality({<<k, j>> \in (1..Len(b)) \X (1..bs) :
                                  j <= Len(b[k]) /\ b[k][j] = x}) = 1
            /\ \A k \in 1..Len(b) :
                  /\ Range(b[k]) \subseteq Range(tr)
                  /\ Len(b[k]) >= 1
                  /\ Len(b[k]) <= bs
                  /\ k < Len(b) => Len(b[k]) = bs

\* four samples split 3 : 1 in an order other than the given one, the three
\* in two minibatches of 2 and 1
C23_Witness ==
    /\ probe.fn = "split"
    /\ probe.in.n = MaxSamples
    /\ probe.out.valSet = <<2>>
    /\ Len(probe.out.batches) = 2
    /\ Len(probe.out.batches[2]) = 1

\* the smallest distance, in position units, between a side of the box at
\* (x, y) and the border of the level it is in (negative when a side is
\* outside)
BorderGap(x, y, grid) ==
    Min(Min(x, y),
        Min(Len(grid[1]) * TILE * PXU - (x + PlayerSize),
            Len(grid) * TILE * PXU - (y + PlayerSize)))

\* the box at (x, y) overlaps a wall tile of the level
InWall(x, y, grid) ==
    \E r \in 1..Len(grid) : \E c \in 1..Len(grid[r]) :
        /\ grid[r][c] = "1"
        /\ x < c * TILE * PXU
        /\ (c - 1) * TILE * PXU < x + PlayerSize
        /\ y < r * TILE * PXU
        /\ (r - 1) * TILE * PXU < y + PlayerSize

\* C24: checkPositionSafety finds the entity safe exactly when it is
\* registered, its box is inside the level, every side of the box is at
\* least 2 tiles from the border and the box overlaps no wall tile;
\* otherwise the reason is the first failing check in that order.
C24_SafetyReasonIsFirstFailingCheck ==
    probe.fn = "checkPositionSafety" =>
        LET gap == BorderGap(probe.in.x, probe.in.y, probe.in.grid)
        IN  probe.out.reason =
               IF ~probe.in.registered THEN "Entity not found"
               ELSE IF gap < 0 THEN "Out of map bounds"
               ELSE IF gap < 2 * TILE * PXU THEN "Near map edge"
               ELSE IF InWall(probe.in.x, probe.in.y, probe.in.grid)
                    THEN "Entity stuck in wall"
               ELSE "safe"

\* a registered entity exactly 2 tiles from the left and top border, safe
C24_Witness ==
    /\ probe.fn = "checkPositionSafety"
    /\ probe.in.registered
    /\ probe.in.x = 2 * TILE * PXU
    /\ probe.in.y = 2 * TILE * PXU
    /\ probe.out.reason = "safe"

(***************************************************************************)
(* The safety checker called on its own: updateEntitySafety for the player *)
(* at a position of the caller's choice, with a dt of the caller's choice. *)
(***************************************************************************)
\* the danger timer is followed up to this many frames
MaxDangerTimer == 200

\* SafetyChecker::updateEntitySafety("player", levelData, tiles, dt), the
\* player being registered or not, with the player at a safe position (2 or
\* 3 tiles in), at the corner of the level or left of it, and dt of 50 or
\* 70 frames.  probe keeps what the call saw and, as history, the dt of the
\* unsafe calls that followed the first of an unbroken run of unsafe calls
\* (streak, -1 when the last call that found the player found it safe).
callUpdateEntitySafety ==
    /\ safety.dangerTimer < MaxDangerTimer
    /\ \E registered \in BOOLEAN, dt \in {50, 70},
          pos \in {<<2 * TILE, 2 * TILE>>, <<3 * TILE, 3 * TILE>>, <<0, 0>>,
                   <<-3, 2 * TILE>>} :
          LET p == [player EXCEPT !.x = pos[1] * PXU, !.y = pos[2] * PXU]
              r == updateEntitySafety(safety, p, levelData, dt)
              unsafe == checkPositionSafety(p, levelData) # "safe"
              before == IF probe = NoProbe THEN -1 ELSE probe.out.streak
          IN  /\ player' = p
              /\ safety' = IF registered THEN r.safety ELSE safety
              /\ probe' = [fn |-> "updateEntitySafety",
                           in |-> [registered |-> registered, unsafe |-> unsafe,
                                   dt |-> dt, x |-> p.x, y |-> p.y,
                                   safety |-> safety],
                           out |-> [reset |-> registered /\ r.reset,
                                    streak |-> IF ~registered THEN before
                                               ELSE IF ~unsafe THEN -1
                                               ELSE IF before = -1 THEN 0
                                               ELSE before + dt]]
    /\ UNCHANGED <<levelData, features, frames, keyFrames>>
    /\ UNCHANGED <<ret, ctlVars, trainerVars, fileVars, runVars, dataVars>>

NextSafety == callUpdateEntitySafety

SpecSafety == Init /\ [][NextSafety]_vars

\* C25: updateEntitySafety asks for a reset only when the entity was found
\* unsafe at this call and at every call since danger was first detected,
\* and the dt of those calls after the first adds up to at least
\* DANGER_RESET_TIME; a call that finds the entity safe clears isInDanger,
\* zeroes dangerTimer and records the position as lastSafePosition; a call
\* for an unregistered entity returns false and changes no safety record.
C25_ResetOnlyAfterUnbrokenDanger ==
    probe.fn = "updateEntitySafety" =>
        /\ probe.out.reset =>
              /\ probe.in.registered
              /\ probe.in.unsafe
              /\ probe.out.streak >= DANGER_RESET_TIME * FPS
        /\ (probe.in.registered /\ ~probe.in.unsafe) =>
              /\ ~probe.out.reset
              /\ safety = [isInDanger |-> FALSE, dangerTimer |-> 0,
                           lastSafePosition |-> <<probe.in.x, probe.in.y>>]
        /\ ~probe.in.registered =>
              /\ ~probe.out.reset
              /\ safety = probe.in.safety

\* a reset asked for after an unbroken run of unsafe calls that followed a
\* safe one at another position
C25_Witness ==
    /\ probe.fn = "updateEntitySafety"
    /\ probe.out.reset
    /\ probe.out.streak = DANGER_RESET_TIME * FPS
    /\ safety.lastSafePosition = <<3 * TILE * PXU, 3 * TILE * PXU>>

\* C26: when recording is switched off while an episode is active, the
\* episode is ended and appended to the stored episodes with the frames
\* recorded so far; it does not stay active.
C26_SwitchOffEndsEpisode ==
    [][(recordingEnabled /\ ~recordingEnabled' /\ currentEpisode.active) =>
           /\ ~currentEpisode'.active
           /\ Len(episodes') = Len(episodes) + 1
           /\ FramesOf(<<episodes'[Len(episodes')]>>)
                 = [i \in 1..Len(currentEpisode.frames) |-> currentEpisode.frames[i].id]]_vars

(***************************************************************************)
(* The data collector called on its own, in any order.  ret names the last *)
(* call when it was endEpisode or saveEpisodeData, and tells whether the   *)
(* file of the latter failed to open.                                      *)
(***************************************************************************)
\* episode ids the collector is followed up to
MaxStarted == 2

callStartEpisode ==
    /\ nextEpisodeId < MaxStarted
    /\ currentEpisode' = startEpisode(recordingEnabled, currentEpisode,
                                      nextEpisodeId).currentEpisode
    /\ nextEpisodeId' = startEpisode(recordingEnabled, currentEpisode,
                                     nextEpisodeId).nextEpisodeId
    /\ ret' = NoRet
    /\ UNCHANGED <<recordingEnabled, episodes, csv, bin, totalGamesCount,
                   episodeFrameCount, recorded, running, episodeLimit>>
    /\ UNCHANGED <<ctlVars, trainerVars, fileVars, gameVars, probeVars, runVars>>

callRecordCurrentFrame ==
    /\ recorded < MaxRecorded
    /\ currentEpisode' = recordCurrentFrame(recordingEnabled, currentEpisode,
                                            recorded + 1)
    /\ recorded' = IF currentEpisode' # currentEpisode THEN recorded + 1 ELSE recorded
    /\ ret' = NoRet
    /\ UNCHANGED <<recordingEnabled, episodes, csv, bin, totalGamesCount,
                   episodeFrameCount, running, episodeLimit, nextEpisodeId>>
    /\ UNCHANGED <<ctlVars, trainerVars, fileVars, gameVars, probeVars, runVars>>

callEndEpisode ==
    /\ currentEpisode' = endEpisode(recordingEnabled, currentEpisode, episodes,
                                    episodeLimit).currentEpisode
    /\ episodes' = endEpisode(recordingEnabled, currentEpisode, episodes,
                              episodeLimit).episodes
    /\ ret' = Ret("endEpisode", NullOutcome, 0, FALSE)
    /\ UNCHANGED <<recordingEnabled, csv, bin, totalGamesCount, episodeFrameCount,
                   recorded, running, episodeLimit, nextEpisodeId>>
    /\ UNCHANGED <<ctlVars, trainerVars, fileVars, gameVars, probeVars, runVars>>

\* DataCollector::setRecordingEnabled
callSetRecordingEnabled ==
    /\ \E enabled \in BOOLEAN : recordingEnabled' = enabled
    /\ ret' = NoRet
    /\ UNCHANGED <<currentEpisode, episodes, csv, bin, totalGamesCount,
                   episodeFrameCount, recorded, running, episodeLimit, nextEpisodeId>>
    /\ UNCHANGED <<ctlVars, trainerVars, fileVars, gameVars, probeVars, runVars>>

\* DataCollector::setEpisodeLimit
callSetEpisodeLimit ==
    /\ \E limit \in 0..1 : episodeLimit' = limit
    /\ ret' = NoRet
    /\ UNCHANGED <<recordingEnabled, currentEpisode, episodes, csv, bin,
                   totalGamesCount, episodeFrameCount, recorded, running,
                   nextEpisodeId>>
    /\ UNCHANGED <<ctlVars, trainerVars, fileVars, gameVars, probeVars, runVars>>

\* DataCollector::clearAllData
callClearAllData ==
    /\ currentEpisode' = NoEpisode
    /\ episodes' = <<>>
    /\ nextEpisodeId' = 0
    /\ ret' = NoRet
    /\ UNCHANGED <<recordingEnabled, csv, bin, totalGamesCount, episodeFrameCount,
                   recorded, running, episodeLimit>>
    /\ UNCHANGED <<ctlVars, trainerVars, fileVars, gameVars, probeVars, runVars>>

\* saveEpisodeData on collected_data.bin; ret tells whether the file opened
callSaveEpisodeData ==
    /\ \E writable \in BOOLEAN :
          /\ bin' = saveEpisodeData(bin, episodes, writable)
          /\ ret' = Ret("saveEpisodeData", NullOutcome, 0, ~writable)
    /\ UNCHANGED <<recordingEnabled, currentEpisode, episodes, csv, totalGamesCount,
                   episodeFrameCount, recorded, running, episodeLimit, nextEpisodeId>>
    /\ UNCHANGED <<ctlVars, trainerVars, fileVars, gameVars, probeVars, runVars>>

NextCollector ==
    \/ callStartEpisode
    \/ callRecordCurrentFrame
    \/ callEndEpisode
    \/ callSetRecordingEnabled
    \/ callSetEpisodeLimit
    \/ callClearAllData
    \/ callSaveEpisodeData

SpecCollector == Init /\ [][NextCollector]_vars

C28_LimitZeroIsUnlimited ==
    [][(ret'.op = "endEpisode" /\ recordingEnabled /\ currentEpisode.active) =>
           IF episodeLimit = 0
           THEN /\ Len(episodes') = Len(episodes) + 1
                /\ SubSeq(episodes', 1, Len(episodes)) = episodes
           ELSE /\ Len(episodes') <= episodeLimit
                /\ Len(episodes') >= 1
                /\ \A i \in 1..(Len(episodes') - 1) :
                      episodes'[i] = episodes[i + Len(episodes) + 1 - Len(episodes')]]_vars

\* C29: after a saveEpisodeData whose file opened, every episode the
\* collector holds is in the file, and no episode is in the file twice.
C29_SaveWritesEachEpisodeOnce ==
    [][(ret'.op = "saveEpisodeData" /\ ~ret'.threw) =>
           /\ \A k \in 1..Len(episodes) : \E i \in 1..Len(bin') : bin'[i] = episodes[k]
           /\ \A i, j \in 1..Len(bin') : bin'[i] = bin'[j] => i = j]_vars

\* C30: castSingleRay reports a hit only at a point inside the pixel extent
\* of the level, 0 <= x < cols * TILE and 0 <= y < rows * TILE (cols the
\* length of the row the point lies in); a point with a negative coordinate,
\* those between -TILE and 0 included, is outside.
C30_NoHitOutsideGrid ==
    (probe.fn = "castSingleRay" /\ probe.out.hit) =>
        /\ probe.out.hitPoint[1] >= 0
        /\ probe.out.hitPoint[2] >= 0
        /\ probe.out.hitPoint[2] < Len(probe.in.grid) * TILE * RAYU
        /\ probe.out.hitPoint[1]
              < Len(probe.in.grid[probe.out.hitPoint[2] \div (TILE * RAYU) + 1])
                   * TILE * RAYU

====
